---- MODULE Spec2Model ----
(***************************************************************************)
(* A model of nextcloud.py: the NextcloudClient protocol client and the    *)
(* NextcloudExtension tool layer built on top of it.                       *)
(*                                                                         *)
(* Several state machines share the module:                                *)
(*   Spec          one tool invocation at a time: settings, the client     *)
(*                 operation(s) it runs, the HTTP requests it sends, the   *)
(*                 callbacks posted to the UI thread, the result output.   *)
(*   SpecContacts  list_contacts_raw / list_contacts / the contacts widget *)
(*                 against an address book held by the server.             *)
(*   SpecDeck      the partial-update PUT bodies of the Deck operations    *)
(*                 against a server that applies the keys it receives.     *)
(*   SpecUrl       the file, CalDAV and CardDAV URLs built from a base     *)
(*                 URL, a username and a relative path.                    *)
(*   SpecDav       the eight DAV listing operations parsing the body of a  *)
(*                 2xx multistatus response.                               *)
(*   SpecNotes     create_note followed by get_note / get_note_raw against *)
(*                 a server that stores the posted note as it is.          *)
(*   SpecShare     interleaved tool invocations, each building its client  *)
(*                 and session with _get_client.                           *)
(*   SpecVcard     _parse_vcard on VCard texts made of physical lines.     *)
(*   SpecLive      Spec with a worker thread that runs to its end.         *)
(***************************************************************************)
EXTENDS Integers, Sequences, FiniteSets, TLC

VARIABLES
    \* ---- tool layer (Spec)
    settings,      \* the host's settings: nextcloud_url / _username / _password
    tool,          \* the nc_* function of the current invocation, or "none"
    pc,            \* "idle", "fetch" (worker started), "text" (data posted), "done"
    caller,        \* the calling thread: "idle", "returned", "raised"
    worker,        \* the thread spawned by the invocation: "none", "running", "finished"
    clients,       \* number of NextcloudClient objects built by the invocation
    requests,      \* HTTP requests sent by the invocation, in order
    calls,         \* client operations finished in the invocation, in order
    idleQueue,     \* callbacks posted with GLib.idle_add and not yet run
    widgetCalls,   \* widget methods run so far, with the thread that ran them
    outputs,       \* values passed to result.set_output, in order
    retval,        \* what the tool function gave its caller
    restored,      \* the result built by a restore function: None or Some(record)
    \* ---- contacts (SpecContacts)
    book,          \* the address book on the server
    reportOK,      \* whether the server answers the REPORT with a valid body
    propfindOK,    \* whether the server answers the PROPFIND with a valid body
    term,          \* the search_term of the listing: None or Some(str)
    limit,         \* the page limit of the listing
    pages,         \* pages returned by list_contacts_raw for page 1, 2, ...
    rawTotal,      \* the total returned with the last of them
    listing,       \* what list_contacts / the contacts widget last showed
    cphase,        \* "start", "paging", "paged", "listed", "off"
    sent,          \* HTTP methods sent by the last list_contacts_raw call
    \* ---- Deck partial updates (SpecDeck)
    deckKind,      \* the entity the behaviour updates: "stack", "card", "label"
    entity,        \* that entity as the server holds it
    put,           \* the last PUT: None, or Some of its arguments, body, effect
    nput,          \* number of PUTs sent so far
    \* ---- URL resolution (SpecUrl)
    urlBase,       \* the nextcloud_url setting: its origin and its path
    urlUser,       \* the username
    urlPath,       \* the relative path or endpoint given to the operation
    urlOut,        \* the URL resolved last: None or Some([kind, url])
    \* ---- DAV listings (SpecDav)
    davBody,       \* the body of the 2xx response to the PROPFIND / REPORT
    davOut,        \* the listing made from it: None or Some([op, out])
    \* ---- Notes round trip (SpecNotes)
    noteStore,     \* the notes the server holds, each with its id
    noteMade,      \* the last create_note: None or Some of its arguments and output
    noteGot,       \* the last get_note / get_note_raw: None or Some([op, id, out])
    \* ---- concurrent invocations (SpecShare)
    shSettings,    \* the nextcloud_url setting: None or Some(url)
    shClients,     \* the NextcloudClient objects built so far, in order
    shSessions,    \* the requests.Session objects built so far, in order
    shInv,         \* per invocation: its position, its client, what it sent
    \* ---- VCard decoding (SpecVcard)
    vcLines,       \* the physical lines of the VCard text
    vcEnding,      \* its line ending: LF or CRLF
    vcOut,         \* what _parse_vcard gave for it: None or Some(record)
    vcAgain        \* what a second _parse_vcard gave: None or Some(record)

toolVars == <<settings, tool, pc, caller, worker, clients, requests,
              calls, idleQueue, widgetCalls, outputs, retval, restored>>

contactVars == <<book, reportOK, propfindOK, term, limit, pages, rawTotal,
                 listing, cphase, sent>>

deckVars == <<deckKind, entity, put, nput>>

urlVars == <<urlBase, urlUser, urlPath, urlOut>>

davVars == <<davBody, davOut>>

notesVars == <<noteStore, noteMade, noteGot>>

shareVars == <<shSettings, shClients, shSessions, shInv>>

vcardVars == <<vcLines, vcEnding, vcOut, vcAgain>>

vars == <<toolVars, contactVars, deckVars, urlVars, davVars, notesVars, shareVars, vcardVars>>

\* What an action of one state machine leaves alone.
ToolFrame == UNCHANGED <<contactVars, deckVars, urlVars, davVars, notesVars, shareVars, vcardVars>>

ContactsFrame == UNCHANGED <<toolVars, deckVars, urlVars, davVars, notesVars, shareVars, vcardVars>>

DeckFrame == UNCHANGED <<toolVars, contactVars, urlVars, davVars, notesVars, shareVars, vcardVars>>

UrlFrame == UNCHANGED <<toolVars, contactVars, deckVars, davVars, notesVars, shareVars, vcardVars>>

DavFrame == UNCHANGED <<toolVars, contactVars, deckVars, urlVars, notesVars, shareVars, vcardVars>>

NotesFrame == UNCHANGED <<toolVars, contactVars, deckVars, urlVars, davVars, shareVars, vcardVars>>

ShareFrame == UNCHANGED <<toolVars, contactVars, deckVars, urlVars, davVars, notesVars, vcardVars>>

VcardFrame == UNCHANGED <<toolVars, contactVars, deckVars, urlVars, davVars, notesVars, shareVars>>

----------------------------------------------------------------------------
(* Python values. None is the empty tuple, any other value v is <<v>>.     *)

None == <<>>

Some(v) == <<v>>

\* `if s:` for a str-or-None argument
TruthyStr(o) == o # None /\ o # Some("")

----------------------------------------------------------------------------
(* The HTTP layer. A response is what one session.request call gives:      *)
(*   ok       a 2xx status with a body the caller can decode               *)
(*   garbled  a 2xx status with a body that is not valid XML / JSON        *)
(*   s404, s405, s500  that status                                         *)
(*   neterr   no response: requests raises (connection error, timeout)     *)

Responses == {"ok", "garbled", "s404", "s405", "s500", "neterr"}

\* raise_for_status, were only the 5xx statuses raised.
raise_for_status_ServerOnly(r) == r = "s500"

\* requests.Response.raise_for_status: raises for 4xx / 5xx
raise_for_status(r) == r \in {"s404", "s405", "s500"}

\* How much of an operation's body sits inside try/except Exception:
\*   "none"   nothing: a raised exception leaves the operation
\*   "parse"  the decoding of the body, after raise_for_status
\*   "all"    the request, raise_for_status and the decoding
\* tol is the status the operation maps to a message before raise_for_status
\* (0: none). parse is how the 2xx body is decoded: "xml" (etree.fromstring),
\* "json" (response.json()), "text" (response.text), "none" (body unused).
ClientOp(method, tol, parse, guard) ==
    [method |-> method, tol |-> tol, parse |-> parse, guard |-> guard]

ClientOps ==
    [ list_files            |-> ClientOp("PROPFIND", 404, "xml",  "parse"),
      read_file             |-> ClientOp("GET",      404, "text", "none"),
      write_file            |-> ClientOp("PUT",      0,   "none", "none"),
      delete_file           |-> ClientOp("DELETE",   404, "none", "none"),
      create_directory      |-> ClientOp("MKCOL",    405, "none", "none"),
      list_notes            |-> ClientOp("GET",      404, "json", "none"),
      get_note              |-> ClientOp("GET",      0,   "json", "none"),
      create_note           |-> ClientOp("POST",     0,   "json", "none"),
      delete_note           |-> ClientOp("DELETE",   0,   "none", "none"),
      list_calendars        |-> ClientOp("PROPFIND", 0,   "xml",  "parse"),
      create_calendar_event |-> ClientOp("PUT",      0,   "none", "none"),
      list_addressbooks     |-> ClientOp("PROPFIND", 0,   "xml",  "parse"),
      list_contacts         |-> ClientOp("REPORT",   0,   "xml",  "all"),
      get_contact           |-> ClientOp("GET",      0,   "text", "all"),
      list_deck_boards      |-> ClientOp("GET",      0,   "json", "none"),
      create_deck_board     |-> ClientOp("POST",     0,   "json", "none"),
      list_deck_stacks      |-> ClientOp("GET",      0,   "json", "none"),
      list_deck_cards       |-> ClientOp("GET",      0,   "json", "none"),
      list_recipes          |-> ClientOp("GET",      0,   "json", "none"),
      get_recipe            |-> ClientOp("GET",      0,   "json", "none"),
      create_recipe         |-> ClientOp("POST",     0,   "json", "none"),
      import_recipe         |-> ClientOp("POST",     0,   "json", "none"),
      create_deck_stack     |-> ClientOp("POST",     0,   "json", "none"),
      update_deck_stack     |-> ClientOp("PUT",      0,   "none", "none"),
      delete_deck_stack     |-> ClientOp("DELETE",   0,   "none", "none"),
      create_deck_card      |-> ClientOp("POST",     0,   "json", "none"),
      update_deck_card      |-> ClientOp("PUT",      0,   "none", "none"),
      reorder_deck_card     |-> ClientOp("PUT",      0,   "none", "none"),
      delete_deck_card      |-> ClientOp("DELETE",   0,   "none", "none"),
      create_deck_label     |-> ClientOp("POST",     0,   "json", "none"),
      update_deck_label     |-> ClientOp("PUT",      0,   "none", "none"),
      delete_deck_label     |-> ClientOp("DELETE",   0,   "none", "none"),
      assign_deck_label     |-> ClientOp("PUT",      0,   "none", "none"),
      remove_deck_label     |-> ClientOp("PUT",      0,   "none", "none"),
      assign_deck_user      |-> ClientOp("PUT",      0,   "none", "none"),
      remove_deck_user      |-> ClientOp("PUT",      0,   "none", "none"),
      list_calendar_events  |-> ClientOp("REPORT",   0,   "xml",  "parse"),
      delete_calendar_event |-> ClientOp("DELETE",   0,   "none", "none"),
      get_calendar_event    |-> ClientOp("GET",      0,   "text", "none"),
      list_files_raw            |-> ClientOp("PROPFIND", 404, "xml",  "parse"),
      list_notes_raw            |-> ClientOp("GET",      404, "json", "none"),
      get_note_raw              |-> ClientOp("GET",      0,   "json", "none"),
      list_calendars_raw        |-> ClientOp("PROPFIND", 0,   "xml",  "parse"),
      list_calendar_events_raw  |-> ClientOp("REPORT",   0,   "xml",  "parse"),
      list_addressbooks_raw     |-> ClientOp("PROPFIND", 0,   "xml",  "parse"),
      list_contacts_raw         |-> ClientOp("REPORT",   0,   "xml",  "all"),
      get_contact_raw           |-> ClientOp("GET",      0,   "text", "all"),
      list_deck_boards_raw      |-> ClientOp("GET",      0,   "json", "none"),
      list_deck_stacks_raw      |-> ClientOp("GET",      0,   "json", "none"),
      list_deck_cards_raw       |-> ClientOp("GET",      0,   "json", "none"),
      list_recipes_raw          |-> ClientOp("GET",      0,   "json", "none"),
      get_recipe_raw            |-> ClientOp("GET",      0,   "json", "none") ]

OpNames == DOMAIN ClientOps

\* The operations that fall back to a second request (a plain PROPFIND) when
\* the first one fails: list_contacts_raw, and list_contacts which calls it.
HasFallback(op) == op \in {"list_contacts_raw", "list_contacts"}

\* Tolerated, were no 404 mapped to a message.
Tolerated_Only405(op, r) ==
    ClientOps[op].tol = 405 /\ r = "s405"

\* The status an operation answers with a message instead of raising.
Tolerated(op, r) ==
    \/ ClientOps[op].tol = 404 /\ r = "s404"
    \/ ClientOps[op].tol = 405 /\ r = "s405"

\* One request/decode attempt: "data" (decoded), "tolerated" (the mapped
\* status), "exc_http" (session.request or raise_for_status raised),
\* "exc_parse" (the body could not be decoded).
Attempt(op, r) ==
    IF r = "neterr" THEN "exc_http"
    ELSE IF Tolerated(op, r) THEN "tolerated"
    ELSE IF raise_for_status(r) THEN "exc_http"
    ELSE IF r = "garbled" /\ ClientOps[op].parse \in {"xml", "json"} THEN "exc_parse"
    ELSE "data"

\* Whether the exception of an attempt is caught inside the operation.
Caught(op, a) ==
    \/ ClientOps[op].guard = "all"
    \/ ClientOps[op].guard = "parse" /\ a = "exc_parse"

\* RequestsOf, were a request that failed sent a second time.
RequestsOf_Retry(op, resps) ==
    IF Attempt(op, resps[1]) \in {"exc_http", "exc_parse"}
    THEN <<ClientOps[op].method, ClientOps[op].method>>
    ELSE <<ClientOps[op].method>>

\* The methods of the requests an operation sends, given the responses the
\* server gives to its first and second request.
RequestsOf(op, resps) ==
    IF HasFallback(op) /\ Attempt(op, resps[1]) # "data"
    THEN <<ClientOps[op].method, "PROPFIND">>
    ELSE <<ClientOps[op].method>>

\* The outcome of a client operation: it returns ("ret") a value of kind
\*   "data"      the decoded data / the success message
\*   "notfound"  the message for a tolerated 404
\*   "exists"    the message for a tolerated 405
\*   "error"     an error string built in an except clause
\* or it raises ("raise"). For a raw operation a returned value other than
\* "data" is the pair (None, message).
Outcome(op, resps) ==
    LET a == Attempt(op, resps[1]) IN
    IF a = "data" THEN [how |-> "ret", val |-> "data"]
    ELSE IF a = "tolerated"
         THEN [how |-> "ret",
               val |-> IF ClientOps[op].tol = 404 THEN "notfound" ELSE "exists"]
    ELSE IF HasFallback(op)
         THEN IF Attempt(op, resps[2]) = "data"
              THEN [how |-> "ret", val |-> "data"]
              ELSE [how |-> "ret", val |-> "error"]
    ELSE IF Caught(op, a) THEN [how |-> "ret", val |-> "error"]
    ELSE [how |-> "raise", val |-> a]

\* A finished client operation as the invocation records it.
CallRecord(op, resps, thread) ==
    [op |-> op, resp |-> resps[1], out |-> Outcome(op, resps),
     nreq |-> Len(RequestsOf(op, resps)), thread |-> thread]

RequestRecords(op, resps, thread) ==
    [i \in 1..Len(RequestsOf(op, resps)) |->
        [op |-> op, method |-> RequestsOf(op, resps)[i], thread |-> thread]]

----------------------------------------------------------------------------
(* The extension: settings, _get_client and the registered tools.          *)

\* A setting as get_setting gives it: missing (None), empty, or a value.
SettingValues == {None, Some(""), Some("set")}

SettingsSpace == [url : SettingValues, username : SettingValues, password : SettingValues]

\* get_client, were only the URL checked.
get_client_UrlOnly(s) ==
    IF ~TruthyStr(s.url)
    THEN [client |-> FALSE, error |-> Some("config")]
    ELSE [client |-> TRUE, error |-> None]

\* _get_client: (None, message) when a setting is missing or empty,
\* (client, None) otherwise.
get_client(s) ==
    IF ~TruthyStr(s.url) \/ ~TruthyStr(s.username) \/ ~TruthyStr(s.password)
    THEN [client |-> FALSE, error |-> Some("config")]
    ELSE [client |-> TRUE, error |-> None]

\* The widget-enabled tools: the raw operation that feeds the widget, the
\* widget's data update, and the operation that renders the textual output.
WidgetTools ==
    [ nc_list_files_widget           |-> [raw |-> "list_files_raw",           update |-> "set_files",        text |-> "list_files"],
      nc_list_notes_widget           |-> [raw |-> "list_notes_raw",           update |-> "set_notes",        text |-> "list_notes"],
      nc_get_note_widget             |-> [raw |-> "get_note_raw",             update |-> "set_content",      text |-> "get_note"],
      nc_list_calendars_widget       |-> [raw |-> "list_calendars_raw",       update |-> "set_calendars",    text |-> "list_calendars"],
      nc_list_calendar_events_widget |-> [raw |-> "list_calendar_events_raw", update |-> "set_events",       text |-> "list_calendar_events"],
      nc_list_addressbooks_widget    |-> [raw |-> "list_addressbooks_raw",    update |-> "set_addressbooks", text |-> "list_addressbooks"],
      nc_list_contacts_widget        |-> [raw |-> "list_contacts_raw",        update |-> "update_ui",        text |-> "list_contacts"],
      nc_get_contact_widget          |-> [raw |-> "get_contact_raw",          update |-> "set_details",      text |-> "get_contact"],
      nc_list_deck_boards_widget     |-> [raw |-> "list_deck_boards_raw",     update |-> "set_boards",       text |-> "list_deck_boards"],
      nc_list_deck_stacks_widget     |-> [raw |-> "list_deck_stacks_raw",     update |-> "set_stacks",       text |-> "list_deck_stacks"],
      nc_list_deck_cards_widget      |-> [raw |-> "list_deck_cards_raw",      update |-> "set_cards",        text |-> "list_deck_cards"],
      nc_list_recipes_widget         |-> [raw |-> "list_recipes_raw",         update |-> "set_recipes",      text |-> "list_recipes"],
      nc_get_recipe_widget           |-> [raw |-> "get_recipe_raw",           update |-> "set_recipe",       text |-> "get_recipe"] ]

\* The simple tools: the one client operation each of them returns.
SimpleTools ==
    [ nc_read_file                   |-> "read_file",
      nc_write_file                  |-> "write_file",
      nc_delete_file                 |-> "delete_file",
      nc_create_directory            |-> "create_directory",
      nc_create_note                 |-> "create_note",
      nc_delete_note                 |-> "delete_note",
      nc_create_calendar_event       |-> "create_calendar_event",
      nc_get_calendar_event          |-> "get_calendar_event",
      nc_delete_calendar_event       |-> "delete_calendar_event",
      nc_create_deck_board           |-> "create_deck_board",
      nc_create_deck_stack           |-> "create_deck_stack",
      nc_update_deck_stack           |-> "update_deck_stack",
      nc_delete_deck_stack           |-> "delete_deck_stack",
      nc_create_deck_card            |-> "create_deck_card",
      nc_update_deck_card            |-> "update_deck_card",
      nc_reorder_deck_card           |-> "reorder_deck_card",
      nc_delete_deck_card            |-> "delete_deck_card",
      nc_archive_deck_card           |-> "update_deck_card",
      nc_unarchive_deck_card         |-> "update_deck_card",
      nc_create_deck_label           |-> "create_deck_label",
      nc_update_deck_label           |-> "update_deck_label",
      nc_delete_deck_label           |-> "delete_deck_label",
      nc_assign_deck_label_to_card   |-> "assign_deck_label",
      nc_remove_deck_label_from_card |-> "remove_deck_label",
      nc_assign_deck_user_to_card    |-> "assign_deck_user",
      nc_remove_deck_user_from_card  |-> "remove_deck_user",
      nc_create_recipe               |-> "create_recipe",
      nc_import_recipe               |-> "import_recipe" ]

WidgetToolNames == DOMAIN WidgetTools

SimpleToolNames == DOMAIN SimpleTools

\* FetchThread, were fetch() called directly by the tool function.
FetchThread_Inline == "caller"

\* The thread that runs a widget tool's fetch():
\* threading.Thread(target=fetch).start()
FetchThread == "worker"

\* GLib.idle_add(callback): the callback is queued for the UI thread.
idle_add(queue, callback) == Append(queue, callback)

\* A widget mutation of fetch(), were the method called where fetch() runs.
widget_mutation_Direct(queue, done, callback) ==
    [queue |-> queue,
     done  |-> Append(done, [call |-> callback, thread |-> FetchThread])]

\* A widget mutation of fetch(): GLib.idle_add(widget.<method>, ...); the
\* method itself is not run.
widget_mutation(queue, done, callback) ==
    [queue |-> idle_add(queue, callback), done |-> done]

\* result.set_output(value) in fetch(), were the call left out.
set_output_Skipped(outs, value) == outs

\* result.set_output(value) in fetch()
set_output(outs, value) == Append(outs, value)

\* Responses to the (at most two) requests of one client operation.
ResponsePairs == Responses \X Responses

\* No invocation is in progress and no callback is pending.
Quiescent == pc \in {"idle", "done"} /\ idleQueue = <<>>

ToolInit ==
    /\ settings \in SettingsSpace
    /\ tool = "none"
    /\ pc = "idle"
    /\ caller = "idle"
    /\ worker = "none"
    /\ clients = 0
    /\ requests = <<>>
    /\ calls = <<>>
    /\ idleQueue = <<>>
    /\ widgetCalls = <<>>
    /\ outputs = <<>>
    /\ retval = None
    /\ restored = None

\* The user edits the extension's settings between two invocations.
Configure ==
    /\ Quiescent
    /\ tool # "none"
    /\ settings' \in SettingsSpace
    /\ tool' = "none"
    /\ pc' = "idle"
    /\ caller' = "idle"
    /\ worker' = "none"
    /\ clients' = 0
    /\ requests' = <<>>
    /\ calls' = <<>>
    /\ idleQueue' = <<>>
    /\ widgetCalls' = <<>>
    /\ outputs' = <<>>
    /\ retval' = None
    /\ restored' = None
    /\ ToolFrame

\* A simple tool, e.g. nc_write_file: _get_client, then the client operation
\* on the calling thread; its value or its exception goes to the caller.
SimpleTool ==
    \E t \in SimpleToolNames, r \in Responses :
        LET gc    == get_client(settings)
            op    == SimpleTools[t]
            resps == <<r>>
            out   == Outcome(op, resps)
        IN  /\ Quiescent
            /\ tool' = t
            /\ pc' = "done"
            /\ worker' = "none"
            /\ idleQueue' = <<>>
            /\ widgetCalls' = <<>>
            /\ outputs' = <<>>
            /\ restored' = None
            /\ IF gc.error # None
               THEN /\ retval' = [how |-> "ret", val |-> gc.error[1]]
                    /\ caller' = "returned"
                    /\ clients' = 0
                    /\ requests' = <<>>
                    /\ calls' = <<>>
               ELSE /\ retval' = out
                    /\ caller' = IF out.how = "raise" THEN "raised" ELSE "returned"
                    /\ clients' = 1
                    /\ requests' = RequestRecords(op, resps, "caller")
                    /\ calls' = <<CallRecord(op, resps, "caller")>>
            /\ UNCHANGED settings
            /\ ToolFrame

\* A widget-enabled tool, e.g. nc_list_files_widget: builds the result and
\* its widget, starts the thread that runs fetch() and returns the result.
WidgetTool ==
    \E t \in WidgetToolNames :
        /\ Quiescent
        /\ tool' = t
        /\ pc' = "fetch"
        /\ caller' = "returned"
        /\ worker' = "running"
        /\ clients' = 0
        /\ requests' = <<>>
        /\ calls' = <<>>
        /\ idleQueue' = <<>>
        /\ widgetCalls' = <<>>
        /\ outputs' = <<>>
        /\ retval' = [how |-> "ret", val |-> "result"]
        /\ restored' = None
        /\ UNCHANGED settings
        /\ ToolFrame

\* fetch(), up to the point where the widget's data has been posted:
\* _get_client, the raw operation, and the callback for its result.
FetchRaw ==
    \E resps \in ResponsePairs :
        LET gc  == get_client(settings)
            op  == WidgetTools[tool].raw
            out == Outcome(op, resps)
            cb  == IF gc.error = None /\ out.how # "raise" /\ out.val = "data"
                   THEN WidgetTools[tool].update
                   ELSE "set_error"
            wm  == widget_mutation(idleQueue, widgetCalls, cb)
        IN  /\ pc = "fetch"
            /\ idleQueue' = wm.queue
            /\ widgetCalls' = wm.done
            /\ IF gc.error # None
               THEN /\ outputs' = set_output(outputs, gc.error[1])
                    /\ pc' = "done"
                    /\ worker' = "finished"
                    /\ UNCHANGED <<clients, requests, calls>>
               ELSE /\ clients' = clients + 1
                    /\ requests' = requests \o RequestRecords(op, resps, FetchThread)
                    /\ calls' = Append(calls, CallRecord(op, resps, FetchThread))
                    /\ IF out.how = "raise"
                       THEN /\ outputs' = set_output(outputs, "exception")
                            /\ pc' = "done"
                            /\ worker' = "finished"
                       ELSE IF out.val # "data"
                       THEN /\ outputs' = set_output(outputs, out.val)
                            /\ pc' = "done"
                            /\ worker' = "finished"
                       ELSE /\ outputs' = outputs
                            /\ pc' = "text"
                            /\ worker' = "running"
            /\ UNCHANGED <<settings, tool, caller, retval, restored>>
            /\ ToolFrame

\* fetch(), after the widget's data has been posted: the operation that
\* renders the textual output, inside the same try block.
FetchText ==
    \E resps \in ResponsePairs :
        LET op  == WidgetTools[tool].text
            out == Outcome(op, resps)
            wm  == widget_mutation(idleQueue, widgetCalls, "set_error")
        IN  /\ pc = "text"
            /\ requests' = requests \o RequestRecords(op, resps, FetchThread)
            /\ calls' = Append(calls, CallRecord(op, resps, FetchThread))
            /\ IF out.how = "raise"
               THEN /\ idleQueue' = wm.queue
                    /\ widgetCalls' = wm.done
                    /\ outputs' = set_output(outputs, "exception")
               ELSE /\ UNCHANGED <<idleQueue, widgetCalls>>
                    /\ outputs' = set_output(outputs, out.val)
            /\ pc' = "done"
            /\ worker' = "finished"
            /\ UNCHANGED <<settings, tool, caller, clients, retval, restored>>
            /\ ToolFrame

\* The restore functions registered with the widget-enabled tools.
RestoreFuncs ==
    {"nc_list_files_restore", "nc_list_notes_restore", "nc_get_note_restore",
     "nc_list_calendars_restore", "nc_list_calendar_events_restore",
     "nc_list_addressbooks_restore", "nc_list_contacts_restore",
     "nc_get_contact_restore", "nc_list_deck_boards_restore",
     "nc_list_deck_stacks_restore", "nc_list_deck_cards_restore",
     "nc_list_recipes_restore", "nc_get_recipe_restore"}

\* The ids under which the host keeps tool results, and the outputs it keeps.
ToolUuids == {"u1", "u2"}

StoredOutputs == {"data", "error", "config"}

\* A widget as NextcloudBaseWidget.__init__ leaves it: the spinner spinning.
NewWidget == [loading |-> TRUE]

\* NextcloudBaseWidget.set_loading
set_loading(widget, loading) == [widget EXCEPT !.loading = loading]

\* self.ui_controller.get_tool_result_by_id(tool_uuid)
get_tool_result_by_id(store, tool_uuid) == store[tool_uuid]

\* restore, were the data fetched again instead of replayed.
restore_Refetch(store, tool_uuid) ==
    [widget   |-> NewWidget,
     output   |-> "data",
     clients  |-> 1,
     requests |-> <<[op |-> "list_files_raw", method |-> "PROPFIND", thread |-> "caller"]>>]

\* The body shared by the nc_*_restore functions: a new widget taken out of
\* the loading state and the output the host kept for tool_uuid; no client
\* is asked for and no client operation is called.
restore(store, tool_uuid) ==
    [widget   |-> set_loading(NewWidget, FALSE),
     output   |-> get_tool_result_by_id(store, tool_uuid),
     clients  |-> 0,
     requests |-> <<>>]

\* The host rebuilds a past tool result with the tool's restore function.
Restore ==
    \E f \in RestoreFuncs, u \in ToolUuids, store \in [ToolUuids -> StoredOutputs] :
        LET r == restore(store, u)
        IN  /\ Quiescent
            /\ tool' = f
            /\ pc' = "done"
            /\ caller' = "returned"
            /\ worker' = "none"
            /\ clients' = r.clients
            /\ requests' = r.requests
            /\ calls' = <<>>
            /\ idleQueue' = <<>>
            /\ widgetCalls' = <<>>
            /\ outputs' = <<r.output>>
            /\ retval' = [how |-> "ret", val |-> "result"]
            /\ restored' = Some([func |-> f, tool_uuid |-> u, store |-> store,
                                 widget |-> r.widget, output |-> r.output])
            /\ UNCHANGED settings
            /\ ToolFrame

\* The UI thread runs the oldest callback posted with GLib.idle_add.
RunIdle ==
    /\ idleQueue # <<>>
    /\ widgetCalls' = Append(widgetCalls, [call |-> Head(idleQueue), thread |-> "ui"])
    /\ idleQueue' = Tail(idleQueue)
    /\ UNCHANGED <<settings, tool, pc, caller, worker, clients, requests, calls,
                   outputs, retval, restored>>
    /\ ToolFrame

----------------------------------------------------------------------------
(* Text. A Python str is a sequence of one-character strings; the model's  *)
(* alphabet is the characters below, ordered by code point as Python       *)
(* orders them.                                                            *)

Ord(c) ==
    CASE c = " " -> 32 [] c = "-" -> 45 [] c = "." -> 46 [] c = "/" -> 47
      [] c = "1" -> 49
      [] c = "A" -> 65 [] c = "B" -> 66 [] c = "C" -> 67 [] c = "F" -> 70
      [] c = "V" -> 86 [] c = "_" -> 95
      [] c = "a" -> 97 [] c = "b" -> 98 [] c = "c" -> 99 [] c = "f" -> 102
      [] c = "v" -> 118

LowerOf(c) ==
    CASE c = "A" -> "a" [] c = "B" -> "b" [] c = "C" -> "c" [] c = "F" -> "f"
      [] c = "V" -> "v" [] OTHER -> c

UpperOf(c) ==
    CASE c = "a" -> "A" [] c = "b" -> "B" [] c = "c" -> "C" [] c = "f" -> "F"
      [] c = "v" -> "V" [] OTHER -> c

IsCased(c) == LowerOf(c) # c \/ UpperOf(c) # c

\* str.lower()
lower(s) == [i \in 1..Len(s) |-> LowerOf(s[i])]

\* str.title(): a cased character is upper-cased after an uncased one (or at
\* the start) and lower-cased after a cased one.
str_title(s) ==
    [i \in 1..Len(s) |->
        IF i > 1 /\ IsCased(s[i - 1]) THEN LowerOf(s[i]) ELSE UpperOf(s[i])]

\* s < t for two str: lexicographic by code point
StrLess(s, t) ==
    \E k \in 0..(IF Len(s) < Len(t) THEN Len(s) ELSE Len(t)) :
        /\ \A i \in 1..k : s[i] = t[i]
        /\ \/ k = Len(s) /\ k < Len(t)
           \/ k < Len(s) /\ k < Len(t) /\ Ord(s[k + 1]) < Ord(t[k + 1])

\* `t in s` for two str
Contains(s, t) ==
    \E i \in 0..(Len(s) - Len(t)) : SubSeq(s, i + 1, i + Len(t)) = t

\* s.endswith(t)
endswith(s, t) ==
    Len(s) >= Len(t) /\ SubSeq(s, Len(s) - Len(t) + 1, Len(s)) = t

\* os.path.basename(s): what follows the last "/"
basename(s) ==
    LET slashes == {i \in 1..Len(s) : s[i] = "/"}
        last    == IF slashes = {} THEN 0
                   ELSE CHOOSE i \in slashes : \A j \in slashes : j <= i
    IN  SubSeq(s, last + 1, Len(s))

\* s.replace(old, new) for a non-empty old: the occurrences of old, found
\* left to right without overlap, are replaced by new.
RECURSIVE replace(_, _, _)
replace(s, old, new) ==
    IF Len(s) < Len(old) THEN s
    ELSE IF SubSeq(s, 1, Len(old)) = old
         THEN new \o replace(SubSeq(s, Len(old) + 1, Len(s)), old, new)
         ELSE <<s[1]>> \o replace(Tail(s), old, new)

\* seq[start:end] with Python's handling of negative and oversized indices
PySlice(seq, start, end) ==
    LET n       == Len(seq)
        norm(i) == IF i < 0 THEN (IF i + n < 0 THEN 0 ELSE i + n)
                   ELSE (IF i > n THEN n ELSE i)
        a       == norm(start)
        b       == norm(end)
    IN  IF a < b THEN SubSeq(seq, a + 1, b) ELSE <<>>

\* list.sort(key=...): a stable sort, here by insertion. keys[i] is the key
\* of seq[i]; an element is placed after every element whose key is not
\* greater than its own, so equal keys keep their order.
SortInsert(sorted, skeys, e, k) ==
    LET m == Cardinality({j \in 1..Len(sorted) : ~StrLess(k, skeys[j])})
    IN  [s |-> SubSeq(sorted, 1, m) \o <<e>> \o SubSeq(sorted, m + 1, Len(sorted)),
         k |-> SubSeq(skeys, 1, m) \o <<k>> \o SubSeq(skeys, m + 1, Len(skeys))]

RECURSIVE SortFrom(_, _, _)
SortFrom(seq, keys, acc) ==
    IF seq = <<>> THEN acc.s
    ELSE SortFrom(Tail(seq), Tail(keys),
                  SortInsert(acc.s, acc.k, Head(seq), Head(keys)))

StableSort(seq, keys) == SortFrom(seq, keys, [s |-> <<>>, k |-> <<>>])

\* dict.get(key, default)
Get(d, key, default) == IF key \in DOMAIN d THEN d[key] ELSE default

----------------------------------------------------------------------------
(* Contacts. The server holds an address book: a sequence of resources,    *)
(* each with its href and the VCard the addressbook-query returns for it   *)
(* (card: the record _parse_vcard decodes from it, or NoCard when the      *)
(* response carries no address-data or an empty one).                      *)

NoCard == [nocard |-> TRUE]

vcf == <<".", "v", "c", "f">>

\* The resources address books are made of.
Pool ==
    << [href |-> <<"/", "c", "/", "a", "-", "b">> \o vcf,
        card |-> [fn |-> <<"A", "b">>, email |-> <<"a">>]],
       [href |-> <<"/", "c", "/", "B">> \o vcf,
        card |-> [fn |-> <<"b">>, tel |-> <<"1">>]],
       [href |-> <<"/", "c", "/", "b">> \o vcf,
        card |-> [email |-> <<"B", "a">>]],
       [href |-> <<"/", "c", "/", "a", "b">> \o vcf,
        card |-> [fn |-> <<"a", "B">>, tel |-> <<"1">>]],
       [href |-> <<"/", "c", "/">>,
        card |-> NoCard],
       [href |-> <<"/", "c", "/", "_">> \o vcf,
        card |-> [fn |-> <<"_">>]] >>

\* Largest address book drawn entry by entry from the pool.
MaxBook == 2

\* Largest page limit of a listing.
MaxLimit == 3

\* Page numbers asked for range over -MaxPage .. MaxPage.
MaxPage == 2

\* The page limit the contacts widget passes.
PageSize == 30

\* The sequences of at most n distinct elements of S: the resources of a
\* collection have distinct hrefs.
RECURSIVE SeqsUpTo(_, _)
SeqsUpTo(S, n) ==
    IF n = 0 THEN {<<>>}
    ELSE LET shorter == SeqsUpTo(S, n - 1)
         IN  shorter \cup
             {Append(b, e) : <<b, e>> \in
                 {x \in shorter \X S : \A i \in 1..Len(x[1]) : x[1][i] # x[2]}}

\* An address book of n resources that all carry a card: longer than a page.
LargeBook(n) == [i \in 1..n |-> Pool[((i - 1) % 4) + 1]]

Books ==
    SeqsUpTo({Pool[i] : i \in 1..Len(Pool)}, MaxBook)
        \cup {LargeBook(PageSize), LargeBook(PageSize + 1)}

Terms == {None, Some(<<>>), Some(<<"B">>), Some(<<"1">>), Some(<<"V">>)}

PageArgs == (0 - MaxPage)..MaxPage

\* report_contacts, were the search term matched against fn alone.
report_contacts_FnOnly(entries, search_term) ==
    LET vcard(e)   == e.card @@ [href |-> basename(e.href)]
        matches(e) ==
            \/ ~(search_term # None /\ search_term[1] # <<>>)
            \/ Contains(lower(Get(vcard(e), "fn", <<>>)), lower(search_term[1]))
        keep(e)    == e.card # NoCard /\ matches(e)
        kept       == SelectSeq(entries, keep)
        contacts   == [i \in 1..Len(kept) |-> vcard(kept[i])]
    IN  StableSort(contacts,
                   [i \in 1..Len(contacts) |-> lower(Get(contacts[i], "fn", <<>>))])

\* The part of list_contacts_raw that follows a valid REPORT response.
report_contacts(entries, search_term) ==
    LET vcard(e)   == e.card @@ [href |-> basename(e.href)]
        matches(e) ==
            \/ ~(search_term # None /\ search_term[1] # <<>>)
            \/ LET t == lower(search_term[1])
                   v == vcard(e)
               IN  \/ Contains(lower(Get(v, "fn", <<>>)), t)
                   \/ Contains(lower(Get(v, "email", <<>>)), t)
                   \/ Contains(lower(Get(v, "tel", <<>>)), t)
        keep(e)    == e.card # NoCard /\ matches(e)
        kept       == SelectSeq(entries, keep)
        contacts   == [i \in 1..Len(kept) |-> vcard(kept[i])]
    IN  StableSort(contacts,
                   [i \in 1..Len(contacts) |-> lower(Get(contacts[i], "fn", <<>>))])

\* propfind_contacts, were every resource of the collection listed.
propfind_contacts_AllResources(entries, search_term) ==
    LET named(e)   == [fn   |-> str_title(replace(replace(basename(e.href), vcf, <<>>),
                                              <<"-">>, <<" ">>)),
                       href |-> basename(e.href)]
        contacts   == [i \in 1..Len(entries) |-> named(entries[i])]
        matches(c) ==
            \/ ~(search_term # None /\ search_term[1] # <<>>)
            \/ Contains(lower(c.fn), lower(search_term[1]))
        kept       == SelectSeq(contacts, matches)
    IN  StableSort(kept, [i \in 1..Len(kept) |-> kept[i].fn])

\* The part of list_contacts_raw that follows a failed REPORT and a valid
\* PROPFIND response.
propfind_contacts(entries, search_term) ==
    LET isvcf(e)   == endswith(e.href, vcf)
        named(e)   == [fn   |-> str_title(replace(replace(basename(e.href), vcf, <<>>),
                                              <<"-">>, <<" ">>)),
                       href |-> basename(e.href)]
        found      == SelectSeq(entries, isvcf)
        contacts   == [i \in 1..Len(found) |-> named(found[i])]
        matches(c) ==
            \/ ~(search_term # None /\ search_term[1] # <<>>)
            \/ Contains(lower(c.fn), lower(search_term[1]))
        kept       == SelectSeq(contacts, matches)
    IN  StableSort(kept, [i \in 1..Len(kept) |-> kept[i].fn])

\* page_slice, were the end of the slice one short.
page_slice_ShortEnd(contacts, page, lim) ==
    LET start == (page - 1) * lim
        end   == start + lim - 1
    IN  PySlice(contacts, start, end)

\* The slice of the sorted contacts that list_contacts_raw returns.
page_slice(contacts, page, lim) ==
    LET start == (page - 1) * lim
        end   == start + lim
    IN  PySlice(contacts, start, end)

\* list_contacts_raw: ({'contacts': ..., 'total': ...}, None) or (None, error)
list_contacts_raw(entries, repOK, propOK, page, lim, search_term) ==
    IF repOK
    THEN LET contacts == report_contacts(entries, search_term)
         IN  [error |-> None,
              contacts |-> page_slice(contacts, page, lim),
              total |-> Len(contacts),
              methods |-> <<"REPORT">>]
    ELSE IF propOK
    THEN LET contacts == propfind_contacts(entries, search_term)
         IN  [error |-> None,
              contacts |-> page_slice(contacts, page, lim),
              total |-> Len(contacts),
              methods |-> <<"REPORT", "PROPFIND">>]
    ELSE [error |-> Some("Error listing contacts"), contacts |-> <<>>, total |-> 0,
          methods |-> <<"REPORT", "PROPFIND">>]

\* The page count in the header line of list_contacts.
text_total_pages(total, lim) ==
    IF lim # 0 THEN (total + lim - 1) \div lim ELSE 1

\* list_contacts: the error, or the header "Page p/total_pages, total total"
\* followed by one line per contact of the page.
list_contacts(entries, repOK, propOK, page, lim, search_term) ==
    LET r == list_contacts_raw(entries, repOK, propOK, page, lim, search_term)
    IN  IF r.error # None
        THEN [error |-> r.error]
        ELSE [error |-> None, page |-> page, total |-> r.total,
              total_pages |-> text_total_pages(r.total, lim),
              lines |-> r.contacts]

\* The page count nc_list_contacts_widget.fetch puts in the widget subtitle.
widget_total_pages(total) ==
    IF total # 0 THEN (total + 29) \div 30 ELSE 1

ContactsInit ==
    /\ book \in Books
    /\ reportOK \in BOOLEAN
    /\ propfindOK \in (IF reportOK THEN {TRUE} ELSE BOOLEAN)
    /\ term \in Terms
    /\ limit \in (IF Len(book) > MaxBook THEN {MaxLimit, PageSize} ELSE 1..MaxLimit)
    /\ pages = <<>>
    /\ rawTotal = 0
    /\ listing = None
    /\ cphase = "start"
    /\ sent = <<>>

ContactsOff ==
    /\ book = <<>>
    /\ reportOK = TRUE
    /\ propfindOK = TRUE
    /\ term = None
    /\ limit = 1
    /\ pages = <<>>
    /\ rawTotal = 0
    /\ listing = None
    /\ cphase = "off"
    /\ sent = <<>>

\* A caller pages through the listing: list_contacts_raw for page 1, then
\* for each further page up to the page count of the total it reported.
RawPage ==
    LET r == list_contacts_raw(book, reportOK, propfindOK, Len(pages) + 1, limit, term)
    IN  /\ cphase \in {"start", "paging"}
        /\ IF r.error # None
           THEN /\ listing' = Some([kind |-> "raw", error |-> r.error])
                /\ cphase' = "listed"
                /\ UNCHANGED <<pages, rawTotal>>
           ELSE /\ pages' = Append(pages, r.contacts)
                /\ rawTotal' = r.total
                /\ cphase' = IF Len(pages) + 1 < text_total_pages(r.total, limit)
                             THEN "paging" ELSE "paged"
                /\ UNCHANGED listing
        /\ sent' = r.methods
        /\ UNCHANGED <<book, reportOK, propfindOK, term, limit>>
        /\ ContactsFrame

\* client.list_contacts(addressbook_name, page, limit, search_term)
ListContacts ==
    \E page \in PageArgs :
        /\ cphase = "start"
        /\ listing' = Some([kind |-> "text", arg |-> page,
                            text |-> list_contacts(book, reportOK, propfindOK,
                                                   page, limit, term)])
        /\ cphase' = "listed"
        /\ sent' = list_contacts_raw(book, reportOK, propfindOK, page, limit, term).methods
        /\ UNCHANGED <<book, reportOK, propfindOK, term, limit, pages, rawTotal>>
        /\ ContactsFrame

\* nc_list_contacts_widget.fetch with a client: the raw listing with the
\* fixed page limit, the subtitle and contacts posted to the widget, and the
\* textual output of list_contacts with the same arguments.
ContactsWidgetFetch ==
    \E page \in PageArgs :
        LET r == list_contacts_raw(book, reportOK, propfindOK, page, PageSize, term)
        IN  /\ cphase = "start"
            /\ listing' =
                 IF r.error # None
                 THEN Some([kind |-> "widget", arg |-> page, error |-> r.error])
                 ELSE Some([kind |-> "widget", arg |-> page, error |-> None,
                            total |-> r.total,
                            total_pages |-> widget_total_pages(r.total),
                            contacts |-> r.contacts,
                            text |-> list_contacts(book, reportOK, propfindOK,
                                                   page, PageSize, term)])
            /\ cphase' = "listed"
            /\ sent' = r.methods
            /\ UNCHANGED <<book, reportOK, propfindOK, term, limit, pages, rawTotal>>
            /\ ContactsFrame

----------------------------------------------------------------------------
(* Deck partial updates. The server holds one stack, card or label and     *)
(* applies to it the keys of the JSON body of a successful PUT.            *)

\* Argument values: None, a falsy value, a truthy value.
StrArgs == {None, Some(""), Some("new")}

IntArgs == {None, Some(0), Some(2)}

BoolArgs == {None, Some(FALSE), Some(TRUE)}

DateArgs == {None, Some("2026-11-01")}

DeckResponses == {"ok", "s500"}

\* Largest number of PUTs in one behaviour.
MaxPuts == 1

\* An empty dict, and a dict with the one key.
EmptyDict == [k \in {} |-> None]

Item(key, value) == [k \in {key} |-> value]

\* update_deck_stack: the JSON body of the PUT
update_deck_stack(title, order) ==
    (IF TruthyStr(title) THEN Item("title", title[1]) ELSE EmptyDict)
    @@ (IF order # None THEN Item("order", order[1]) ELSE EmptyDict)

\* update_deck_card, were the description written without its guard.
update_deck_card_UnguardedDescription(title, description, order, duedate, archived) ==
    (IF TruthyStr(title) THEN Item("title", title[1]) ELSE EmptyDict)
    @@ Item("description", IF description # None THEN description[1] ELSE "null")
    @@ (IF order # None THEN Item("order", order[1]) ELSE EmptyDict)
    @@ (IF duedate # None THEN Item("duedate", duedate[1]) ELSE EmptyDict)
    @@ (IF archived # None THEN Item("archived", archived[1]) ELSE EmptyDict)

\* update_deck_card: the JSON body of the PUT
update_deck_card(title, description, order, duedate, archived) ==
    (IF TruthyStr(title) THEN Item("title", title[1]) ELSE EmptyDict)
    @@ (IF description # None THEN Item("description", description[1]) ELSE EmptyDict)
    @@ (IF order # None THEN Item("order", order[1]) ELSE EmptyDict)
    @@ (IF duedate # None THEN Item("duedate", duedate[1]) ELSE EmptyDict)
    @@ (IF archived # None THEN Item("archived", archived[1]) ELSE EmptyDict)

\* update_deck_label: the JSON body of the PUT
update_deck_label(title, color) ==
    (IF TruthyStr(title) THEN Item("title", title[1]) ELSE EmptyDict)
    @@ (IF TruthyStr(color) THEN Item("color", color[1]) ELSE EmptyDict)

\* reorder_deck_card: the JSON body of the PUT (`if target_stack_id:`)
reorder_deck_card(order, target_stack_id) ==
    Item("order", order)
    @@ (IF target_stack_id # None /\ target_stack_id # Some(0)
        THEN Item("stackId", target_stack_id[1]) ELSE EmptyDict)

\* The server: a successful PUT replaces the fields the body names.
ServerApply(e, body, resp) ==
    IF resp = "ok"
    THEN [k \in DOMAIN e |-> IF k \in DOMAIN body THEN body[k] ELSE e[k]]
    ELSE e

InitialEntity(kind) ==
    CASE kind = "stack" -> [title |-> "old", order |-> 1]
      [] kind = "card"  -> [title |-> "old", description |-> "old", order |-> 1,
                            duedate |-> "2026-01-01", archived |-> FALSE, stackId |-> 1]
      [] kind = "label" -> [title |-> "old", color |-> "old"]

DeckInit ==
    /\ deckKind \in {"stack", "card", "label"}
    /\ entity = InitialEntity(deckKind)
    /\ put = None
    /\ nput = 0

DeckOff ==
    /\ deckKind = "off"
    /\ entity = EmptyDict
    /\ put = None
    /\ nput = 0

\* One PUT: the operation, the arguments it was called with, the body it
\* sent, the server's answer and the entity before it.
PutRecord(op, args, body, resp) ==
    Some([op |-> op, args |-> args, body |-> body, resp |-> resp, before |-> entity])

UpdateDeckStack ==
    \E title \in StrArgs, order \in IntArgs, resp \in DeckResponses :
        LET body == update_deck_stack(title, order)
        IN  /\ deckKind = "stack"
            /\ entity' = ServerApply(entity, body, resp)
            /\ put' = PutRecord("update_deck_stack",
                                [title |-> title, order |-> order], body, resp)
            /\ nput < MaxPuts
            /\ nput' = nput + 1
            /\ UNCHANGED deckKind
            /\ DeckFrame

UpdateDeckCard ==
    \E title \in StrArgs, description \in StrArgs, order \in IntArgs,
       duedate \in DateArgs, archived \in BoolArgs, resp \in DeckResponses :
        LET body == update_deck_card(title, description, order, duedate, archived)
        IN  /\ deckKind = "card"
            /\ entity' = ServerApply(entity, body, resp)
            /\ put' = PutRecord("update_deck_card",
                                [title |-> title, description |-> description,
                                 order |-> order, duedate |-> duedate,
                                 archived |-> archived], body, resp)
            /\ nput < MaxPuts
            /\ nput' = nput + 1
            /\ UNCHANGED deckKind
            /\ DeckFrame

UpdateDeckLabel ==
    \E title \in StrArgs, color \in StrArgs, resp \in DeckResponses :
        LET body == update_deck_label(title, color)
        IN  /\ deckKind = "label"
            /\ entity' = ServerApply(entity, body, resp)
            /\ put' = PutRecord("update_deck_label",
                                [title |-> title, color |-> color], body, resp)
            /\ nput < MaxPuts
            /\ nput' = nput + 1
            /\ UNCHANGED deckKind
            /\ DeckFrame

ReorderDeckCard ==
    \E order \in {0, 2}, target \in IntArgs, resp \in DeckResponses :
        LET body == reorder_deck_card(order, target)
        IN  /\ deckKind = "card"
            /\ entity' = ServerApply(entity, body, resp)
            /\ put' = PutRecord("reorder_deck_card",
                                [order |-> Some(order), stackId |-> target], body, resp)
            /\ nput < MaxPuts
            /\ nput' = nput + 1
            /\ UNCHANGED deckKind
            /\ DeckFrame

----------------------------------------------------------------------------
(* URL resolution. A URL is its origin (scheme and host, e.g. https://h)   *)
(* and its path. A path is a str: a sequence of pieces, each one character *)
(* ("/", ".", " ", a letter) or a fixed run of characters that holds no    *)
(* "/" and is no dot segment ("remote.php", "dav", "%20", ...).            *)

\* s.rstrip(c)
RECURSIVE rstrip(_, _)
rstrip(s, c) ==
    IF s # <<>> /\ s[Len(s)] = c THEN rstrip(SubSeq(s, 1, Len(s) - 1), c) ELSE s

\* s.lstrip(c)
RECURSIVE lstrip(_, _)
lstrip(s, c) ==
    IF s # <<>> /\ s[1] = c THEN lstrip(Tail(s), c) ELSE s

\* s.split(c): the pieces between the occurrences of c, empty ones included
RECURSIVE split(_, _)
split(s, c) ==
    LET hits == {i \in 1..Len(s) : s[i] = c}
    IN  IF hits = {} THEN <<s>>
        ELSE LET first == CHOOSE i \in hits : \A j \in hits : i <= j
             IN  <<SubSeq(s, 1, first - 1)>> \o split(SubSeq(s, first + 1, Len(s)), c)

\* c.join(parts)
RECURSIVE join(_, _)
join(parts, c) ==
    IF parts = <<>> THEN <<>>
    ELSE IF Len(parts) = 1 THEN parts[1]
    ELSE parts[1] \o <<c>> \o join(Tail(parts), c)

\* urllib.parse.quote(s) with safe='/': of the model's characters only the
\* space is escaped.
quote(s) ==
    [i \in 1..Len(s) |-> IF s[i] = " " THEN "%20" ELSE s[i]]

\* The loop of urljoin that resolves the "." and ".." segments.
RECURSIVE resolve_segments(_, _)
resolve_segments(segments, resolved_path) ==
    IF segments = <<>> THEN resolved_path
    ELSE LET seg == Head(segments)
         IN  IF seg = <<".", ".">>
             THEN resolve_segments(Tail(segments),
                      IF resolved_path = <<>> THEN <<>>
                      ELSE SubSeq(resolved_path, 1, Len(resolved_path) - 1))
             ELSE IF seg = <<".">>
             THEN resolve_segments(Tail(segments), resolved_path)
             ELSE resolve_segments(Tail(segments), Append(resolved_path, seg))

\* urllib.parse.urljoin(base, url) for a url that is a non-empty relative
\* path without a leading "/", a scheme, a query or a fragment, which is
\* what the URL builders pass.
urljoin(base, path) ==
    LET bparts     == split(base.path, "/")
        base_parts == IF bparts[Len(bparts)] # <<>>
                      THEN SubSeq(bparts, 1, Len(bparts) - 1) ELSE bparts
        joined     == base_parts \o split(path, "/")
        n          == Len(joined)
        segments   == IF n <= 2 THEN joined
                      ELSE <<joined[1]>>
                           \o SelectSeq(SubSeq(joined, 2, n - 1), LAMBDA x : x # <<>>)
                           \o <<joined[n]>>
        resolved   == resolve_segments(segments, <<>>)
        final      == IF segments[Len(segments)] \in {<<".">>, <<".", ".">>}
                      THEN Append(resolved, <<>>) ELSE resolved
        text       == join(final, "/")
    IN  [origin |-> base.origin, path |-> IF text = <<>> THEN <<"/">> ELSE text]

\* NextcloudClient.__init__: self.url = url.rstrip('/') + '/'
client_url(url) == [origin |-> url.origin, path |-> rstrip(url.path, "/") \o <<"/">>]

\* The fixed prefixes of the three DAV sub-APIs.
WebdavPrefix(username) ==
    <<"remote.php", "/", "dav", "/", "files", "/", username, "/">>

CaldavPrefix(username) ==
    <<"remote.php", "/", "dav", "/", "calendars", "/", username, "/">>

CarddavPrefix(username) ==
    <<"remote.php", "/", "dav", "/", "addressbooks", "/", "users", "/", username, "/">>

\* NextcloudClient._get_webdav_url
get_webdav_url(url, username, path) ==
    urljoin(client_url(url), WebdavPrefix(username) \o quote(lstrip(path, "/")))

\* NextcloudClient._get_caldav_url
get_caldav_url(url, username, endpoint) ==
    urljoin(client_url(url), CaldavPrefix(username) \o lstrip(endpoint, "/"))

\* NextcloudClient._get_carddav_url
get_carddav_url(url, username, endpoint) ==
    urljoin(client_url(url), CarddavPrefix(username) \o lstrip(endpoint, "/"))

\* Longest relative path drawn character by character.
MaxPath == 4

PathChars == {"a", ".", "/", " "}

RECURSIVE StringsUpTo(_, _)
StringsUpTo(S, n) ==
    IF n = 0 THEN {<<>>}
    ELSE LET shorter == StringsUpTo(S, n - 1)
         IN  shorter \cup {Append(s, c) : <<s, c>> \in shorter \X S}

\* The nextcloud_url settings: with and without a path, with and without
\* trailing slashes.
BaseUrls ==
    {[origin |-> "https://h", path |-> p] :
        p \in {<<>>, <<"/">>, <<"/", "/">>, <<"/", "n">>, <<"/", "n", "/">>}}

Usernames == {"u", "bob"}

UrlInit ==
    /\ urlBase \in BaseUrls
    /\ urlUser \in Usernames
    /\ urlPath \in StringsUpTo(PathChars, MaxPath)
    /\ urlOut = None

UrlOff ==
    /\ urlBase = [origin |-> "https://h", path |-> <<>>]
    /\ urlUser = "u"
    /\ urlPath = <<>>
    /\ urlOut = None

\* A file operation resolves its URL.
WebdavUrl ==
    /\ urlOut = None
    /\ urlOut' = Some([kind |-> "files",
                       url |-> get_webdav_url(urlBase, urlUser, urlPath)])
    /\ UNCHANGED <<urlBase, urlUser, urlPath>>
    /\ UrlFrame

\* A CalDAV operation resolves its URL.
CaldavUrl ==
    /\ urlOut = None
    /\ urlOut' = Some([kind |-> "calendars",
                       url |-> get_caldav_url(urlBase, urlUser, urlPath)])
    /\ UNCHANGED <<urlBase, urlUser, urlPath>>
    /\ UrlFrame

\* A CardDAV operation resolves its URL.
CarddavUrl ==
    /\ urlOut = None
    /\ urlOut' = Some([kind |-> "addressbooks",
                       url |-> get_carddav_url(urlBase, urlUser, urlPath)])
    /\ UNCHANGED <<urlBase, urlUser, urlPath>>
    /\ UrlFrame

----------------------------------------------------------------------------
(* DAV listings. The body of a 2xx response is Malformed (etree.fromstring *)
(* raises) or a multistatus with its sequence of {DAV:}response elements.  *)
(* An element is a record of what find() gives on it:                      *)
(*   href            None (no href element) or Some(its text)              *)
(*   propstat, prop  whether the element has a propstat, and that a prop   *)
(*   resourcetype    None or Some(the set of its child elements)           *)
(*   displayname, getcontentlength   None or Some(its text)                *)
(*   caldata         None or Some(the lines of the calendar-data text)     *)

Malformed == [wellformed |-> FALSE, responses |-> <<>>]

Multistatus(responses) == [wellformed |-> TRUE, responses |-> responses]

Element(href, propstat, prop, resourcetype, displayname, getcontentlength, caldata) ==
    [href |-> href, propstat |-> propstat, prop |-> prop,
     resourcetype |-> resourcetype, displayname |-> displayname,
     getcontentlength |-> getcontentlength, caldata |-> caldata]

\* The response elements multistatus bodies are made of.
DavPool ==
    << \* a collection with a displayname and no getcontentlength
       Element(Some(<<"/", "f", "/", "Documents", "/">>), TRUE, TRUE,
               Some({"collection"}), Some(<<"Documents">>), None, None),
       \* a file with an empty resourcetype
       Element(Some(<<"/", "f", "/", "a.txt">>), TRUE, TRUE,
               Some({}), Some(<<"a.txt">>), Some(<<"4", "2">>), None),
       \* no resourcetype, no displayname, an href that ends in "/"
       Element(Some(<<"/", "f", "/", "b", "%20", "c", "/">>), TRUE, TRUE,
               None, None, Some(<<"-", "1">>), None),
       \* a collection that has a getcontentlength, and not a number
       Element(Some(<<"/", "f", "/", "d">>), TRUE, TRUE,
               Some({"collection"}), None, Some(<<"a", "b", "c">>), None),
       \* a calendar without displayname
       Element(Some(<<"/", "cal", "/", "work", "/">>), TRUE, TRUE,
               Some({"collection", "calendar"}), None, None, None),
       \* an address book
       Element(Some(<<"/", "card", "/", "contacts", "/">>), TRUE, TRUE,
               Some({"collection", "addressbook"}), Some(<<"Contacts">>), None, None),
       \* an event
       Element(Some(<<"/", "cal", "/", "work", "/", "e.ics">>), TRUE, TRUE,
               None, None, None,
               Some(<<[key |-> "BEGIN", val |-> <<"VEVENT">>],
                      [key |-> "SUMMARY", val |-> <<"Lunch">>],
                      [key |-> "DTSTART", val |-> <<"2", "0">>]>>)),
       \* elements that lack href, propstat, prop
       Element(None, TRUE, TRUE, Some({"collection"}), Some(<<"x">>), None, None),
       Element(Some(<<"/", "f", "/", "y">>), FALSE, FALSE, None, None, None, None),
       Element(Some(<<"/", "f", "/", "z">>), TRUE, FALSE, None, None, None, None),
       \* a calendar whose displayname element is empty: its text is None
       Element(Some(<<"/", "cal", "/", "home", "/">>), TRUE, TRUE,
               Some({"collection", "calendar"}), Some(None), None, None) >>

\* Most response elements in a multistatus body.
MaxElems == 3

DavBodies ==
    {Malformed} \cup
    {Multistatus(rs) : rs \in StringsUpTo({DavPool[i] : i \in 1..Len(DavPool)}, MaxElems)}

\* urllib.parse.unquote: of the model's pieces only "%20" is an escape.
unquote(s) == [i \in 1..Len(s) |-> IF s[i] = "%20" THEN " " ELSE s[i]]

\* What a block of code comes to: it raises, or it gives a value.
Raises == [how |-> "raise"]

Gives(v) == [how |-> "ret", value |-> v]

\* response_elem.find('{DAV:}href').text, propstat.find(...), prop.find(...):
\* an AttributeError when the element found is None.
prop_of(e) == IF e.href = None \/ ~e.propstat \/ ~e.prop THEN Raises ELSE Gives(e)

\* displayname.text if displayname is not None else
\* os.path.basename(href.rstrip('/'))
name_of(e, href) ==
    IF e.displayname # None THEN e.displayname[1] ELSE basename(rstrip(href, "/"))

\* file_item, were every element that has a resourcetype a directory.
file_item_AnyResourcetype(e) ==
    IF prop_of(e) = Raises THEN Raises
    ELSE LET href == unquote(e.href[1])
         IN  Gives([name |-> name_of(e, href),
                    href |-> href,
                    is_directory |-> e.resourcetype # None,
                    size |-> IF e.getcontentlength # None
                             THEN e.getcontentlength[1] ELSE <<"0">>])

\* The body of the loop of list_files / list_files_raw: the record of one
\* response element.
file_item(e) ==
    IF prop_of(e) = Raises THEN Raises
    ELSE LET href == unquote(e.href[1])
         IN  Gives([name |-> name_of(e, href),
                    href |-> href,
                    is_directory |-> (e.resourcetype # None
                                      /\ "collection" \in e.resourcetype[1]),
                    size |-> IF e.getcontentlength # None
                             THEN e.getcontentlength[1] ELSE <<"0">>])

\* The body of the loop of list_calendars / list_addressbooks (and their
\* raw variants): the element is kept when its resourcetype has the marker.
\* collection_item, were every collection kept whatever its markers.
collection_item_AnyCollection(e, marker) ==
    IF prop_of(e) = Raises THEN Raises
    ELSE IF e.resourcetype # None /\ "collection" \in e.resourcetype[1]
         THEN Gives(<<[name |-> name_of(e, e.href[1]), href |-> e.href[1]]>>)
         ELSE Gives(<<>>)

collection_item(e, marker) ==
    IF prop_of(e) = Raises THEN Raises
    ELSE IF e.resourcetype # None /\ marker \in e.resourcetype[1]
         THEN Gives(<<[name |-> name_of(e, e.href[1]), href |-> e.href[1]]>>)
         ELSE Gives(<<>>)

\* The value of the last line of the calendar data that starts with the
\* key, or the default.
last_value(lines, key, default) ==
    LET hits == {i \in 1..Len(lines) : lines[i].key = key}
    IN  IF hits = {} THEN default
        ELSE lines[CHOOSE i \in hits : \A j \in hits : j <= i].val

\* The body of the loop of list_calendar_events_raw: the element is kept
\* when it has calendar-data.
event_item(e) ==
    IF prop_of(e) = Raises THEN Raises
    ELSE IF e.caldata # None
         THEN Gives(<<[summary |-> last_value(e.caldata[1], "SUMMARY", <<"No Title">>),
                       dtstart |-> last_value(e.caldata[1], "DTSTART", <<>>),
                       href    |-> e.href[1]]>>)
         ELSE Gives(<<>>)

\* etree.fromstring and the loop over tree.findall('{DAV:}response'): the
\* items the elements give, in response order, unless the parse or the
\* processing of an element raises.
RECURSIVE Flatten(_)
Flatten(ss) == IF ss = <<>> THEN <<>> ELSE Head(ss) \o Flatten(Tail(ss))

\* The records one response element adds to the list of an operation of
\* the given kind (none, or one), or Raises.
item_of(kind, e) ==
    CASE kind = "files"        -> IF file_item(e) = Raises THEN Raises
                                  ELSE Gives(<<file_item(e).value>>)
      [] kind = "calendars"    -> collection_item(e, "calendar")
      [] kind = "addressbooks" -> collection_item(e, "addressbook")
      [] kind = "events"       -> event_item(e)

each_response(body, kind) ==
    IF ~body.wellformed THEN Raises
    ELSE IF \E i \in 1..Len(body.responses) : item_of(kind, body.responses[i]) = Raises
         THEN Raises
    ELSE Gives(Flatten([i \in 1..Len(body.responses) |->
                           item_of(kind, body.responses[i]).value]))

\* try: ... except Exception as e: return <the error value>
\* The result of an operation: what it returns (items, or the error value,
\* which is the error string or the pair (None, error)), or that it raises.
try_except(block) ==
    IF block = Raises THEN [how |-> "ret", items |-> None, error |-> Some("Error")]
    ELSE [how |-> "ret", items |-> Some(block.value), error |-> None]

no_try(block) ==
    IF block = Raises THEN [how |-> "raise", items |-> None, error |-> None]
    ELSE [how |-> "ret", items |-> Some(block.value), error |-> None]

files_block(body) == each_response(body, "files")

\* list_files_raw, were the parsing outside the try block.
list_files_raw_Unguarded(body) == no_try(files_block(body))

\* list_files_raw, given the body of a 2xx response
list_files_raw(body) == try_except(files_block(body))

\* list_files: one line "[DIR] name (size bytes)" or "[FILE] ..." per item
list_files(body) ==
    LET r == try_except(files_block(body))
    IN  IF r.error # None THEN r
        ELSE [r EXCEPT !.items =
                 Some([i \in 1..Len(r.items[1]) |->
                         [type_str |-> IF r.items[1][i].is_directory
                                       THEN "[DIR]" ELSE "[FILE]",
                          name |-> r.items[1][i].name,
                          size |-> r.items[1][i].size]])]

list_calendars_raw(body) ==
    try_except(each_response(body, "calendars"))

list_calendars(body) ==
    try_except(each_response(body, "calendars"))

list_addressbooks_raw(body) ==
    try_except(each_response(body, "addressbooks"))

list_addressbooks(body) ==
    try_except(each_response(body, "addressbooks"))

list_calendar_events_raw(body) ==
    try_except(each_response(body, "events"))

\* list_calendar_events: one line "- summary (dtstart)" per event
list_calendar_events(body) ==
    LET r == try_except(each_response(body, "events"))
    IN  IF r.error # None THEN r
        ELSE [r EXCEPT !.items =
                 Some([i \in 1..Len(r.items[1]) |->
                         [summary |-> r.items[1][i].summary,
                          dtstart |-> r.items[1][i].dtstart]])]

DavInit ==
    /\ davBody \in DavBodies
    /\ davOut = None

DavOff ==
    /\ davBody = Multistatus(<<>>)
    /\ davOut = None

ListFiles ==
    /\ davOut = None
    /\ davOut' = Some([op |-> "list_files", out |-> list_files(davBody)])
    /\ UNCHANGED davBody
    /\ DavFrame

ListFilesRaw ==
    /\ davOut = None
    /\ davOut' = Some([op |-> "list_files_raw", out |-> list_files_raw(davBody)])
    /\ UNCHANGED davBody
    /\ DavFrame

ListCalendars ==
    /\ davOut = None
    /\ davOut' = Some([op |-> "list_calendars", out |-> list_calendars(davBody)])
    /\ UNCHANGED davBody
    /\ DavFrame

ListCalendarsRaw ==
    /\ davOut = None
    /\ davOut' = Some([op |-> "list_calendars_raw", out |-> list_calendars_raw(davBody)])
    /\ UNCHANGED davBody
    /\ DavFrame

ListAddressbooks ==
    /\ davOut = None
    /\ davOut' = Some([op |-> "list_addressbooks", out |-> list_addressbooks(davBody)])
    /\ UNCHANGED davBody
    /\ DavFrame

ListAddressbooksRaw ==
    /\ davOut = None
    /\ davOut' = Some([op |-> "list_addressbooks_raw",
                       out |-> list_addressbooks_raw(davBody)])
    /\ UNCHANGED davBody
    /\ DavFrame

ListCalendarEvents ==
    /\ davOut = None
    /\ davOut' = Some([op |-> "list_calendar_events",
                       out |-> list_calendar_events(davBody)])
    /\ UNCHANGED davBody
    /\ DavFrame

ListCalendarEventsRaw ==
    /\ davOut = None
    /\ davOut' = Some([op |-> "list_calendar_events_raw",
                       out |-> list_calendar_events_raw(davBody)])
    /\ UNCHANGED davBody
    /\ DavFrame

----------------------------------------------------------------------------
(* Notes. The server holds notes, stores the fields of a posted note as    *)
(* they are and gives the new note the next free id. Bodies travel as JSON: *)
(* a dict is a record whose str values are JSON string literals.           *)

Digits == <<"0", "1", "2", "3", "4", "5", "6", "7", "8", "9">>

\* str(n) of a non-negative int, as f"...{n}" formats it
RECURSIVE str_int(_)
str_int(n) ==
    IF n < 10 THEN <<Digits[n + 1]>>
    ELSE str_int(n \div 10) \o <<Digits[(n % 10) + 1]>>

\* the int the server reads from the decimal digits in the URL
RECURSIVE int_str(_)
int_str(s) ==
    IF s = <<>> THEN 0
    ELSE 10 * int_str(SubSeq(s, 1, Len(s) - 1))
         + (CHOOSE d \in 0..9 : Digits[d + 1] = s[Len(s)])

\* json.dumps of one character of a str (ensure_ascii): the quote, the
\* backslash and the newline are escaped, and so is a non-ASCII character
\* ("U+00E9" stands for the one character e-acute).
json_escape(c) ==
    CASE c = "\"" -> <<"\\", "\"">>
      [] c = "\\" -> <<"\\", "\\">>
      [] c = "\n" -> <<"\\", "n">>
      [] c = "U+00E9" -> <<"\\", "u", "0", "0", "e", "9">>
      [] OTHER -> <<c>>

\* json.dumps(s) of a str
json_dumps_str(s) ==
    <<"\"">> \o Flatten([i \in 1..Len(s) |-> json_escape(s[i])]) \o <<"\"">>

\* the characters between the quotes of a JSON string literal, decoded
RECURSIVE json_unescape(_)
json_unescape(t) ==
    IF t = <<>> THEN <<>>
    ELSE IF t[1] # "\\" THEN <<t[1]>> \o json_unescape(Tail(t))
    ELSE IF t[2] = "n" THEN <<"\n">> \o json_unescape(SubSeq(t, 3, Len(t)))
    ELSE IF t[2] = "u" THEN <<"U+00E9">> \o json_unescape(SubSeq(t, 7, Len(t)))
    ELSE <<t[2]>> \o json_unescape(SubSeq(t, 3, Len(t)))

\* json.loads(t) of a JSON string literal
json_loads_str(t) == json_unescape(SubSeq(t, 2, Len(t) - 1))

\* json.dumps(d) / response.json() of a dict of str values
json_dumps(d) == [k \in DOMAIN d |-> json_dumps_str(d[k])]

json_loads(b) == [k \in DOMAIN b |-> json_loads_str(b[k])]

\* The str values a caller gives as title, content or category.
NoteStrings ==
    { <<>>,
      <<"a">>,
      <<"a", "\n", "b">>,
      <<"\"", "\\", "n">>,
      <<"U+00E9", "\\">> }

\* create_note, were the category left out of the payload.
create_note_payload_NoCategory(title, content, category) ==
    [title |-> title, content |-> content]

\* payload = {"title": title, "content": content, "category": category}
create_note_payload(title, content, category) ==
    [title |-> title, content |-> content, category |-> category]

\* The server on POST notes: the posted fields as they are (a category
\* that was not posted is ""), under the next free id.
ServerCreate(store, body) ==
    LET posted == json_loads(body)
        id     == IF store = <<>> THEN 1 ELSE store[Len(store)].id + 1
    IN  [id |-> id,
         title |-> posted.title,
         content |-> posted.content,
         category |-> Get(posted, "category", <<>>)]

\* The server on GET notes/{id}: the JSON of the note with that id.
ServerGet(store, digits) ==
    LET i == CHOOSE i \in 1..Len(store) : store[i].id = int_str(digits)
    IN  [id |-> str_int(store[i].id)]
        @@ json_dumps([title |-> store[i].title,
                       content |-> store[i].content,
                       category |-> store[i].category])

\* return f"Note created with ID: {note['id']}"
create_note_output(note) == <<"Note created with ID: ">> \o str_int(note.id)

\* The id a caller reads in the output of create_note.
ReturnedId(out) == Tail(out)

\* get_note: f"Title: {title}\nCategory: {category}\nContent:\n{content}"
get_note(body) ==
    LET note == json_loads([k \in DOMAIN body \ {"id"} |-> body[k]])
    IN  <<"Title: ">> \o note.title \o <<"\n", "Category: ">> \o note.category
        \o <<"\n", "Content:", "\n">> \o note.content

\* get_note_raw: (response.json(), None)
get_note_raw(body) ==
    [note  |-> Some([id |-> int_str(body.id)]
                    @@ json_loads([k \in DOMAIN body \ {"id"} |-> body[k]])),
     error |-> None]

\* The notes the server holds before the behaviour.
InitialStores ==
    { <<>>,
      <<[id |-> 9, title |-> <<"o">>, content |-> <<"l">>, category |-> <<"d">>]>> }

NotesInit ==
    /\ noteStore \in InitialStores
    /\ noteMade = None
    /\ noteGot = None

NotesOff ==
    /\ noteStore = <<>>
    /\ noteMade = None
    /\ noteGot = None

\* create_note(title, content, category), every request answered 2xx
CreateNote ==
    /\ noteMade = None
    /\ \E title \in NoteStrings, content \in NoteStrings, category \in NoteStrings :
           LET body == json_dumps(create_note_payload(title, content, category))
               note == ServerCreate(noteStore, body)
           IN  /\ noteStore' = Append(noteStore, note)
               /\ noteMade' = Some([title |-> title, content |-> content,
                                    category |-> category, defaulted |-> FALSE,
                                    out |-> create_note_output(note)])
    /\ UNCHANGED noteGot
    /\ NotesFrame

\* create_note(title, content): the category argument takes its default ""
CreateNoteDefault ==
    /\ noteMade = None
    /\ \E title \in NoteStrings, content \in NoteStrings :
           LET body == json_dumps(create_note_payload(title, content, <<>>))
               note == ServerCreate(noteStore, body)
           IN  /\ noteStore' = Append(noteStore, note)
               /\ noteMade' = Some([title |-> title, content |-> content,
                                    category |-> <<>>, defaulted |-> TRUE,
                                    out |-> create_note_output(note)])
    /\ UNCHANGED noteGot
    /\ NotesFrame

\* get_note(note_id) with the id the creation returned
GetNote ==
    /\ noteMade # None
    /\ noteGot = None
    /\ LET id == ReturnedId(noteMade[1].out)
       IN  noteGot' = Some([op |-> "get_note", id |-> id,
                            out |-> get_note(ServerGet(noteStore, id))])
    /\ UNCHANGED <<noteStore, noteMade>>
    /\ NotesFrame

\* get_note_raw(note_id) with the id the creation returned
GetNoteRaw ==
    /\ noteMade # None
    /\ noteGot = None
    /\ LET id == ReturnedId(noteMade[1].out)
       IN  noteGot' = Some([op |-> "get_note_raw", id |-> id,
                            out |-> get_note_raw(ServerGet(noteStore, id))])
    /\ UNCHANGED <<noteStore, noteMade>>
    /\ NotesFrame

----------------------------------------------------------------------------
(* Concurrent invocations. Each tool invocation runs on its own thread     *)
(* (the worker of a widget tool, or the thread the host calls a tool on),  *)
(* and the steps of several invocations interleave. The heap holds the     *)
(* NextcloudClient and requests.Session objects; a Session is mutable: it  *)
(* keeps the cookies of the responses to the requests sent through it.     *)

NumInvocations == 2

MaxRequests == 2

Invocations == 1..NumInvocations

ShareUrls == {"A", "B"}

\* requests.Session(), were it one session kept for all clients.
new_session_Shared(sessions) == 1

\* requests.Session(): a new object, the next of the heap
new_session(sessions) == Len(sessions) + 1

\* NextcloudClient(url, username, password): a new object with its url,
\* its own new session and the credentials set on it
NextcloudClient(heap, sessions, url) ==
    LET sid == new_session(sessions)
    IN  [client   |-> Len(heap) + 1,
         clients  |-> Append(heap, [url |-> url, session |-> sid]),
         sessions |-> IF sid > Len(sessions)
                      THEN Append(sessions, [auth |-> url, cookies |-> <<>>])
                      ELSE [sessions EXCEPT ![sid].auth = url]]

ShareInit ==
    /\ shSettings \in {None} \cup {Some(u) : u \in ShareUrls}
    /\ shClients = <<>>
    /\ shSessions = <<>>
    /\ shInv = [i \in Invocations |->
                   [pc |-> "start", client |-> None, url |-> None, sent |-> <<>>]]

ShareOff ==
    /\ shSettings = None
    /\ shClients = <<>>
    /\ shSessions = <<>>
    /\ shInv = <<>>

\* The user edits the setting while invocations run.
ShChangeSetting ==
    /\ \E i \in Invocations : shInv[i].pc = "start"
    /\ \E u \in ShareUrls : shSettings # Some(u) /\ shSettings' = Some(u)
    /\ UNCHANGED <<shClients, shSessions, shInv>>
    /\ ShareFrame

\* client, error = self._get_client() of invocation i
ShGetClient(i) ==
    /\ shInv[i].pc = "start"
    /\ IF shSettings = None
       THEN /\ shInv' = [shInv EXCEPT ![i].pc = "done"]
            /\ UNCHANGED <<shClients, shSessions>>
       ELSE LET made == NextcloudClient(shClients, shSessions, shSettings[1])
            IN  /\ shClients' = made.clients
                /\ shSessions' = made.sessions
                /\ shInv' = [shInv EXCEPT ![i].pc = "client",
                                          ![i].client = Some(made.client),
                                          ![i].url = shSettings]
    /\ UNCHANGED shSettings
    /\ ShareFrame

\* One self.session.request(...) of a client operation of invocation i:
\* it goes to the client's url with the session's credentials and cookies,
\* and the response leaves a cookie in the session.
ShRequest(i) ==
    /\ shInv[i].pc = "client"
    /\ Len(shInv[i].sent) < MaxRequests
    /\ LET c == shClients[shInv[i].client[1]]
           s == shSessions[c.session]
       IN  /\ shInv' = [shInv EXCEPT ![i].sent =
                           Append(@, [url |-> c.url, auth |-> s.auth,
                                      cookies |-> s.cookies])]
           /\ shSessions' = [shSessions EXCEPT ![c.session].cookies = Append(@, i)]
    /\ UNCHANGED <<shSettings, shClients>>
    /\ ShareFrame

\* Invocation i returns; its client is dropped.
ShReturn(i) ==
    /\ shInv[i].pc = "client"
    /\ shInv' = [shInv EXCEPT ![i].pc = "done"]
    /\ UNCHANGED <<shSettings, shClients, shSessions>>
    /\ ShareFrame

ShGetClients == \E i \in Invocations : ShGetClient(i)

ShRequests == \E i \in Invocations : ShRequest(i)

ShReturns == \E i \in Invocations : ShReturn(i)

----------------------------------------------------------------------------
(* VCard decoding. A VCard text is a str whose pieces are single           *)
(* characters (":", ";", " ", tab, CR, LF, letters) and property names or  *)
(* parameters taken as one piece ("FN", "fn", "TYPE=x", ...).              *)

\* str.upper() of one piece
UpperPiece(p) ==
    CASE p = "fn" -> "FN" [] p = "Fn" -> "FN" [] p = "email" -> "EMAIL"
      [] p = "TYPE=x" -> "TYPE=X" [] OTHER -> UpperOf(p)

\* str.upper()
upper(s) == [i \in 1..Len(s) |-> UpperPiece(s[i])]

Whitespace == {" ", "\t", "\r", "\n"}

\* str.strip()
RECURSIVE strip(_)
strip(s) ==
    IF s # <<>> /\ s[1] \in Whitespace THEN strip(Tail(s))
    ELSE IF s # <<>> /\ s[Len(s)] \in Whitespace THEN strip(SubSeq(s, 1, Len(s) - 1))
    ELSE s

\* str.splitlines(): the lines between the line breaks LF, CR and CRLF; a
\* final line break starts no further line.
RECURSIVE splitlines(_)
splitlines(s) ==
    LET breaks == {i \in 1..Len(s) : s[i] \in {"\n", "\r"}}
    IN  IF s = <<>> THEN <<>>
        ELSE IF breaks = {} THEN <<s>>
        ELSE LET first == CHOOSE i \in breaks : \A j \in breaks : i <= j
                 crlf  == s[first] = "\r" /\ first < Len(s) /\ s[first + 1] = "\n"
                 next  == IF crlf THEN first + 2 ELSE first + 1
             IN  <<SubSeq(s, 1, first - 1)>> \o splitlines(SubSeq(s, next, Len(s)))

\* line.split(':', 1): what precedes the first ":" and what follows it
split_once(line, c) ==
    LET first == CHOOSE i \in 1..Len(line) :
                     line[i] = c /\ \A j \in 1..(i - 1) : line[j] # c
    IN  <<SubSeq(line, 1, first - 1), SubSeq(line, first + 1, Len(line))>>

\* data[key] = val, were the first value of a key kept.
set_item_KeepFirst(data, key, val) ==
    [k \in DOMAIN data \cup {key} |-> IF k \in DOMAIN data THEN data[k] ELSE val]

\* data[key] = val
set_item(data, key, val) ==
    [k \in DOMAIN data \cup {key} |-> IF k = key THEN val ELSE data[k]]

\* vcard_text.replace('\r\n ', '').replace('\n ', '')
unfold(vcard_text) ==
    replace(replace(vcard_text, <<"\r", "\n", " ">>, <<>>), <<"\n", " ">>, <<>>)

\* The body of the loop of _parse_vcard for one line.
parse_line(data, line) ==
    IF ":" \notin {line[i] : i \in 1..Len(line)} THEN data
    ELSE LET kv       == split_once(line, ":")
             key_name == upper(split(kv[1], ";")[1])
             val      == strip(kv[2])
             parts    == split(val, ";")
             addr     == join(SelectSeq(parts, LAMBDA p : p # <<>>), ", ")
         IN  CASE key_name = <<"FN">>    -> set_item(data, "fn", val)
               [] key_name = <<"EMAIL">> -> set_item(data, "email", val)
               [] key_name = <<"TEL">>   -> set_item(data, "tel", val)
               [] key_name = <<"ORG">>   -> set_item(data, "org", val)
               [] key_name = <<"NOTE">>  -> set_item(data, "note", val)
               [] key_name = <<"ADR">>   -> set_item(data, "adr", addr)
               [] OTHER -> data

RECURSIVE parse_lines(_, _)
parse_lines(data, lines) ==
    IF lines = <<>> THEN data
    ELSE parse_lines(parse_line(data, Head(lines)), Tail(lines))

\* _parse_vcard(vcard_text)
parse_vcard(vcard_text) == parse_lines(EmptyDict, splitlines(unfold(vcard_text)))

\* The physical lines VCard texts are made of.
LinePool ==
    << <<"FN", ":", "a">>,
       <<"fn", ";", "TYPE=x", ":", "b">>,
       <<"EMAIL", ":", "a">>,
       <<"VERSION", ":", "a">>,
       <<"a">>,
       <<" ", "b">>,
       <<"\t", "b">>,
       <<"ADR", ":", ";", "a", ";", ";", "b">>,
       <<"TEL", ":", " ", "b", " ">>,
       <<"FN", ":", "b", ":", "a">>,
       <<"NOTE", ":", "b">>,
       <<"ORG", ":", "a">> >>

\* Most physical lines in a VCard text.
MaxLines == 3

LineEndings == { <<"\n">>, <<"\r", "\n">> }

\* The VCard text of the given physical lines, each with the line ending.
VcardText(lines, ending) ==
    Flatten([i \in 1..Len(lines) |-> LinePool[lines[i]] \o ending])

VcardInit ==
    /\ vcLines \in UNION {[1..n -> 1..Len(LinePool)] : n \in 0..MaxLines}
    /\ vcEnding \in LineEndings
    /\ vcOut = None
    /\ vcAgain = None

VcardOff ==
    /\ vcLines = <<>>
    /\ vcEnding = <<>>
    /\ vcOut = None
    /\ vcAgain = None

\* self._parse_vcard(adata.text) / self._parse_vcard(response.text)
ParseVcard ==
    /\ vcOut = None
    /\ vcOut' = Some(parse_vcard(VcardText(vcLines, vcEnding)))
    /\ UNCHANGED <<vcLines, vcEnding, vcAgain>>
    /\ VcardFrame

\* The same text decoded once more.
ParseVcardAgain ==
    /\ vcOut # None
    /\ vcAgain = None
    /\ vcAgain' = Some(parse_vcard(VcardText(vcLines, vcEnding)))
    /\ UNCHANGED <<vcLines, vcEnding, vcOut>>
    /\ VcardFrame

----------------------------------------------------------------------------
(* The specifications.                                                     *)

ToolOff ==
    /\ settings = [url |-> None, username |-> None, password |-> None]
    /\ tool = "none"
    /\ pc = "off"
    /\ caller = "idle"
    /\ worker = "none"
    /\ clients = 0
    /\ requests = <<>>
    /\ calls = <<>>
    /\ idleQueue = <<>>
    /\ widgetCalls = <<>>
    /\ outputs = <<>>
    /\ retval = None
    /\ restored = None

Init == ToolInit /\ ContactsOff /\ DeckOff /\ UrlOff /\ DavOff /\ NotesOff /\ ShareOff /\ VcardOff

Next == Configure \/ SimpleTool \/ WidgetTool \/ FetchRaw \/ FetchText \/ RunIdle
            \/ Restore

Spec == Init /\ [][Next]_vars

\* The worker thread of a widget tool is scheduled and each of its HTTP
\* requests returns or raises, and the UI thread runs its idle callbacks.
SpecLive ==
    Init /\ [][Next]_vars
         /\ WF_vars(FetchRaw) /\ WF_vars(FetchText) /\ WF_vars(RunIdle)

InitContacts == ContactsInit /\ ToolOff /\ DeckOff /\ UrlOff /\ DavOff /\ NotesOff /\ ShareOff /\ VcardOff

NextContacts == RawPage \/ ListContacts \/ ContactsWidgetFetch

SpecContacts == InitContacts /\ [][NextContacts]_vars

InitDeck == DeckInit /\ ToolOff /\ ContactsOff /\ UrlOff /\ DavOff /\ NotesOff /\ ShareOff /\ VcardOff

NextDeck == UpdateDeckStack \/ UpdateDeckCard \/ UpdateDeckLabel \/ ReorderDeckCard

SpecDeck == InitDeck /\ [][NextDeck]_vars

InitUrl == UrlInit /\ ToolOff /\ ContactsOff /\ DeckOff /\ DavOff /\ NotesOff /\ ShareOff /\ VcardOff

NextUrl == WebdavUrl \/ CaldavUrl \/ CarddavUrl

SpecUrl == InitUrl /\ [][NextUrl]_vars

InitDav == DavInit /\ ToolOff /\ ContactsOff /\ DeckOff /\ UrlOff /\ NotesOff /\ ShareOff /\ VcardOff

NextDav == ListFiles \/ ListFilesRaw \/ ListCalendars \/ ListCalendarsRaw
               \/ ListAddressbooks \/ ListAddressbooksRaw
               \/ ListCalendarEvents \/ ListCalendarEventsRaw

SpecDav == InitDav /\ [][NextDav]_vars

InitNotes == NotesInit /\ ToolOff /\ ContactsOff /\ DeckOff /\ UrlOff /\ DavOff /\ ShareOff /\ VcardOff

NextNotes == CreateNote \/ CreateNoteDefault \/ GetNote \/ GetNoteRaw

SpecNotes == InitNotes /\ [][NextNotes]_vars

InitShare == ShareInit /\ ToolOff /\ ContactsOff /\ DeckOff /\ UrlOff /\ DavOff /\ NotesOff /\ VcardOff

NextShare == ShChangeSetting \/ ShGetClients \/ ShRequests \/ ShReturns

SpecShare == InitShare /\ [][NextShare]_vars

InitVcard == VcardInit /\ ToolOff /\ ContactsOff /\ DeckOff /\ UrlOff /\ DavOff /\ NotesOff /\ ShareOff

NextVcard == ParseVcard \/ ParseVcardAgain

SpecVcard == InitVcard /\ [][NextVcard]_vars

----------------------------------------------------------------------------
(* Claims.                                                                 *)

\* ---- helpers of the claims

\* A setting is missing or empty.
ConfigMissing ==
    \E k \in {"url", "username", "password"} : settings[k] \in {None, Some("")}

\* The callbacks posted to the widget so far, run or still queued.
Posted == [i \in 1..Len(widgetCalls) |-> widgetCalls[i].call] \o idleQueue

\* The textual result of a finished invocation: what a simple tool returned,
\* what a widget tool's worker passed to set_output.
Reported ==
    IF tool \in SimpleToolNames THEN <<retval.val>> ELSE outputs

\* The request or the decoding of some client operation failed.
SomeCallFailed ==
    \E i \in 1..Len(calls) : calls[i].resp \in {"garbled", "s500", "neterr"}
                             /\ Attempt(calls[i].op, calls[i].resp) # "data"

\* The operations claim C2 names.
ReadDeleteOps ==
    {"list_files", "read_file", "delete_file", "list_notes", "get_note",
     "delete_note", "get_calendar_event", "delete_calendar_event", "get_recipe",
     "delete_deck_stack", "delete_deck_card", "delete_deck_label"}

\* The operations claim C6 names.
MutatingOps ==
    {"write_file", "delete_file", "create_directory", "create_note", "delete_note",
     "create_calendar_event", "delete_calendar_event",
     "create_deck_board", "create_deck_stack", "update_deck_stack",
     "delete_deck_stack", "create_deck_card", "update_deck_card",
     "reorder_deck_card", "delete_deck_card", "create_deck_label",
     "update_deck_label", "delete_deck_label", "assign_deck_label",
     "remove_deck_label", "assign_deck_user", "remove_deck_user",
     "create_recipe", "import_recipe"}

\* ceil(n / d) for n >= 0, d >= 1: the least k with k * d >= n
Ceil(n, d) == CHOOSE k \in 0..n : k * d >= n /\ \A j \in 0..(k - 1) : j * d < n

\* A search term is in force (it is neither None nor empty).
Searching == term # None /\ term[1] # <<>>

\* Resource i of the book matches the search term in fn, email or tel.
MatchesTerm(i) ==
    \E f \in {"fn", "email", "tel"} \cap DOMAIN book[i].card :
        Contains(lower(book[i].card[f]), lower(term[1]))

\* The name the PROPFIND fallback gives resource i.
FallbackName(i) ==
    str_title(replace(replace(basename(book[i].href), vcf, <<>>), <<"-">>, <<" ">>))

\* The resources of the book that belong to the listing, by index: on the
\* REPORT path those with a card that match the term, on the fallback path
\* the .vcf resources whose derived name matches it.
Listed ==
    IF reportOK
    THEN {i \in 1..Len(book) :
            book[i].card # NoCard /\ (Searching => MatchesTerm(i))}
    ELSE {i \in 1..Len(book) :
            endswith(book[i].href, vcf)
            /\ (Searching => Contains(lower(FallbackName(i)), lower(term[1])))}

\* The record the listing holds for resource i.
ListedRecord(i) ==
    IF reportOK
    THEN book[i].card @@ [href |-> basename(book[i].href)]
    ELSE [fn |-> FallbackName(i), href |-> basename(book[i].href)]

\* The key the listing is ordered by.
SortKey(c) == IF reportOK THEN lower(Get(c, "fn", <<>>)) ELSE c.fn

RECURSIVE Concat(_)
Concat(ss) == IF ss = <<>> THEN <<>> ELSE Head(ss) \o Concat(Tail(ss))

\* C1 (as claimed): every tool-level operation reports a failed request or
\* an undecodable response as its result, and none lets an exception reach
\* its caller.
C1_FailuresAreResults ==
    /\ caller # "raised"
    /\ (pc = "done" /\ SomeCallFailed) =>
           /\ Reported # <<>>
           /\ Reported[Len(Reported)] \in {"error", "exception"}

\* C2 (as claimed): each read or delete operation maps a 404 to a "not
\* found" result instead of raising.
C2_NotFoundOn404 ==
    \A i \in 1..Len(calls) :
        (calls[i].op \in ReadDeleteOps /\ calls[i].resp = "s404")
            => calls[i].out = [how |-> "ret", val |-> "notfound"]

\* C3: against an unchanged server, the pages list_contacts_raw returns for
\* page 1 .. total_pages concatenate to the whole filtered listing in sorted
\* order: each listed contact exactly once, and page p is the slice
\* [(p-1)*L : (p-1)*L + L] of it.
C3_PagesConcatenate ==
    cphase = "paged" =>
        LET all == Concat(pages)
        IN  /\ Len(all) = rawTotal
            /\ rawTotal = Cardinality(Listed)
            /\ \A i \in Listed :
                   Cardinality({j \in 1..Len(all) : all[j] = ListedRecord(i)})
                 = Cardinality({j \in Listed : ListedRecord(j) = ListedRecord(i)})
            /\ \A j \in 1..(Len(all) - 1) : ~StrLess(SortKey(all[j + 1]), SortKey(all[j]))
            /\ \A p \in 1..Len(pages) :
                   pages[p] = SubSeq(all, (p - 1) * limit + 1,
                                     IF p * limit < rawTotal THEN p * limit ELSE rawTotal)
            /\ Len(pages) = (IF rawTotal = 0 THEN 1 ELSE Ceil(rawTotal, limit))

\* C3 witness: a search that keeps some contacts and drops others has been
\* paged through, over more than one page.
C3_Witness ==
    /\ cphase = "paged"
    /\ reportOK
    /\ Searching
    /\ Len(pages) >= 2
    /\ rawTotal < Len(book)
    /\ Len(Concat(pages)) = rawTotal

\* C4 (as claimed): when the search term matches no contact, the listing
\* reports total 0, one page and an empty page, in the text of list_contacts
\* and in the widget alike.
C4_NoMatchOnePage ==
    (/\ listing # None
     /\ listing[1].kind \in {"text", "widget"}
     /\ reportOK
     /\ Searching
     /\ \A i \in 1..Len(book) : book[i].card # NoCard => ~MatchesTerm(i))
        => /\ listing[1].text.total = 0
           /\ listing[1].text.total_pages = 1
           /\ listing[1].text.lines = <<>>
           /\ listing[1].kind = "widget" =>
                  listing[1].total_pages = 1 /\ listing[1].contacts = <<>>

\* C5 (as claimed): for every total >= 0 and limit L >= 1 the page count of
\* a listing is ceil(total / L), total being the filtered count, and
\* list_contacts and the widget report the same value.
C5_PageCountIsCeil ==
    (listing # None /\ listing[1].kind \in {"text", "widget"}
                    /\ (listing[1].kind = "widget" => listing[1].error = None)
                    /\ listing[1].text.error = None) =>
        LET l == listing[1]
            L == IF l.kind = "widget" THEN PageSize ELSE limit
        IN  /\ l.text.total = Cardinality(Listed)
            /\ l.text.total_pages = Ceil(l.text.total, L)
            /\ l.kind = "widget" =>
                   /\ l.total = l.text.total
                   /\ l.total_pages = Ceil(l.total, L)
                   /\ l.total_pages = l.text.total_pages

\* C6: an invocation of a mutating client operation sends exactly one HTTP
\* request, whether the request succeeds or fails.
C6_MutatingSentOnce ==
    \A i \in 1..Len(calls) :
        calls[i].op \in MutatingOps =>
            Cardinality({j \in 1..Len(requests) : requests[j].op = calls[i].op}) = 1

\* C6 witness: a mutating operation whose request failed has finished.
C6_Witness ==
    /\ pc = "done"
    /\ Len(calls) = 1
    /\ calls[1].op = "write_file"
    /\ calls[1].resp = "s500"
    /\ calls[1].out.how = "raise"
    /\ Len(requests) = 1

\* C7: in an invocation with a missing or empty URL, username or password
\* no client is built and no HTTP request is sent, and the invocation ends
\* with the configuration error.
C7_ConfigMissingNoRequest ==
    (tool \in WidgetToolNames \cup SimpleToolNames /\ ConfigMissing) =>
        /\ requests = <<>>
        /\ calls = <<>>
        /\ clients = 0
        /\ \A i \in 1..Len(Posted) : Posted[i] = "set_error"
        /\ pc = "done" => Reported = <<"config">>

\* C7 witness: a widget tool has ended with the configuration error because
\* the password alone is empty.
C7_Witness ==
    /\ tool \in WidgetToolNames
    /\ pc = "done"
    /\ settings = [url |-> Some("set"), username |-> Some("set"), password |-> Some("")]
    /\ outputs = <<"config">>
    /\ Posted = <<"set_error">>

\* C8 (as claimed): every invocation that fetches remote data sends its
\* requests on a worker thread spawned for it, never on the calling thread.
C8_RequestsOffCallerThread ==
    requests # <<>> =>
        /\ worker # "none"
        /\ \A i \in 1..Len(requests) : requests[i].thread = "worker"

\* C8 (amended): a widget-enabled tool sends its requests on the worker
\* thread it spawned, never on the calling thread, and has returned to its
\* caller while the worker runs; a simple tool sends its request on the
\* calling thread and spawns no thread.
C8_WidgetRequestsOnWorker ==
    /\ tool \in WidgetToolNames =>
           /\ worker \in {"running", "finished"}
           /\ caller = "returned"
           /\ \A i \in 1..Len(requests) : requests[i].thread = "worker"
    /\ tool \in SimpleToolNames =>
           /\ worker = "none"
           /\ \A i \in 1..Len(requests) : requests[i].thread = "caller"

\* C8 witness: the tool function has returned and its worker, still
\* running, has sent its first request.
C8_Witness ==
    /\ tool \in WidgetToolNames
    /\ caller = "returned"
    /\ worker = "running"
    /\ Len(requests) = 1
    /\ requests[1].thread = "worker"

\* C9 (as claimed): in an invocation of a widget-enabled tool the widget
\* gets exactly one update: a data update or set_error, never both.
C9_OneWidgetUpdate ==
    tool \in WidgetToolNames =>
        /\ Len(Posted) <= 1
        /\ pc = "done" => Len(Posted) = 1

\* C10: the PUT body of update_deck_stack, update_deck_card and
\* update_deck_label has no key for an argument that is None, so a server
\* that applies the keys present keeps its value of every such field.
C10_UnsetFieldsOmitted ==
    (put # None /\ put[1].op \in {"update_deck_stack", "update_deck_card",
                                  "update_deck_label"}) =>
        \A k \in DOMAIN put[1].args :
            put[1].args[k] = None =>
                /\ k \notin DOMAIN put[1].body
                /\ entity[k] = put[1].before[k]

\* C10 witness: a card update that set the order and left the title unset
\* has been applied by the server.
C10_Witness ==
    /\ put # None
    /\ put[1].op = "update_deck_card"
    /\ put[1].resp = "ok"
    /\ put[1].args.title = None
    /\ put[1].args.description = None
    /\ put[1].args.order = Some(2)
    /\ entity.order = 2
    /\ entity.title = put[1].before.title
    /\ entity.description = put[1].before.description

\* C15: read_file answers an HTTP 404 with a "not found" result and lets no
\* exception out; so do list_files, list_files_raw and delete_file.
C15_FileOpsNotFound ==
    \A i \in 1..Len(calls) :
        (/\ calls[i].op \in {"read_file", "list_files", "list_files_raw", "delete_file"}
         /\ calls[i].resp = "s404")
            => /\ calls[i].out = [how |-> "ret", val |-> "notfound"]
               /\ calls[i].nreq = 1
               /\ caller # "raised"

\* C15 witness: nc_read_file has returned the "not found" message for a 404.
C15_Witness ==
    /\ tool = "nc_read_file"
    /\ pc = "done"
    /\ caller = "returned"
    /\ Len(calls) = 1
    /\ calls[1].op = "read_file"
    /\ calls[1].resp = "s404"
    /\ retval = [how |-> "ret", val |-> "notfound"]

\* C16: create_directory answers an HTTP 405 with the "already exists"
\* message, neither raising nor reporting success, and reports that the
\* directory was created only when the MKCOL response is no HTTP error.
C16_CreateDirectory ==
    \A i \in 1..Len(calls) :
        calls[i].op = "create_directory" =>
            /\ calls[i].resp = "s405" => calls[i].out = [how |-> "ret", val |-> "exists"]
            /\ calls[i].out.val = "data" =>
                   /\ calls[i].out.how = "ret"
                   /\ calls[i].resp \notin {"s404", "s405", "s500", "neterr"}
            /\ calls[i].resp \in {"s404", "s500", "neterr"} => calls[i].out.how = "raise"

\* C16 witness: nc_create_directory has returned the "already exists"
\* message for a 405.
C16_Witness ==
    /\ tool = "nc_create_directory"
    /\ pc = "done"
    /\ caller = "returned"
    /\ Len(calls) = 1
    /\ calls[1].resp = "s405"
    /\ retval = [how |-> "ret", val |-> "exists"]

\* C13: a restore function sends no HTTP request and builds no client; its
\* result carries exactly the output the host kept for the given tool_uuid,
\* and its widget is not loading.
C13_RestoreReplays ==
    restored # None =>
        /\ requests = <<>>
        /\ calls = <<>>
        /\ clients = 0
        /\ worker = "none"
        /\ Posted = <<>>
        /\ outputs = <<restored[1].store[restored[1].tool_uuid]>>
        /\ restored[1].output = restored[1].store[restored[1].tool_uuid]
        /\ restored[1].widget.loading = FALSE
        /\ caller = "returned"

\* C13 witness: nc_list_contacts_restore has replayed the output kept for
\* u2, which differs from the one kept for u1, with the settings empty.
C13_Witness ==
    /\ restored # None
    /\ tool = "nc_list_contacts_restore"
    /\ restored[1].tool_uuid = "u2"
    /\ restored[1].store = [u1 |-> "data", u2 |-> "error"]
    /\ outputs = <<"error">>
    /\ ConfigMissing

\* The elements of a sequence.
Range(seq) == {seq[i] : i \in 1..Len(seq)}

\* The resources of the book whose href ends in .vcf.
VcfResources == {i \in 1..Len(book) : endswith(book[i].href, vcf)}

\* The fn of a contact record, "" when it has none.
FnOf(c) == IF "fn" \in DOMAIN c THEN c.fn ELSE <<>>

\* The error of the last listing, None when there is none.
ListingError ==
    IF listing = None THEN None
    ELSE IF listing[1].kind = "text" THEN listing[1].text.error
    ELSE listing[1].error

\* C14: when the REPORT of list_contacts_raw fails, the operation sends one
\* plain PROPFIND; if that succeeds the result is no error and lists exactly
\* the resources whose href ends in .vcf (those a search term keeps, when
\* one is given), each named after its filename; the result is the error
\* value (None, error) only when the PROPFIND fails as well.
C14_FallbackNonFatal ==
    (~reportOK /\ cphase \in {"paging", "paged", "listed"}) =>
        /\ sent = <<"REPORT", "PROPFIND">>
        /\ propfindOK => ListingError = None
        /\ ~propfindOK => (listing # None /\ ListingError # None /\ pages = <<>>)
        /\ (propfindOK /\ cphase = "paged") =>
               LET all == Concat(pages)
               IN  /\ \A j \in 1..Len(all) :
                          /\ DOMAIN all[j] = {"fn", "href"}
                          /\ endswith(all[j].href, vcf)
                          /\ all[j].fn = str_title(replace(replace(all[j].href, vcf, <<>>),
                                                           <<"-">>, <<" ">>))
                   /\ ~Searching =>
                          /\ {all[j].href : j \in 1..Len(all)}
                               = {basename(book[i].href) : i \in VcfResources}
                          /\ Len(all) = Cardinality(VcfResources)
                   /\ Searching =>
                          /\ {all[j].href : j \in 1..Len(all)}
                               = {basename(book[i].href) :
                                    i \in {k \in VcfResources :
                                             Contains(lower(FallbackName(k)), lower(term[1]))}}

\* C14 witness: the REPORT failed, the PROPFIND succeeded, and of a
\* collection holding a .vcf resource and another resource the listing
\* names the .vcf resource alone.
C14_Witness ==
    /\ ~reportOK
    /\ propfindOK
    /\ cphase = "paged"
    /\ ~Searching
    /\ Len(book) = 2
    /\ Cardinality(VcfResources) = 1
    /\ rawTotal = 1
    /\ Concat(pages) = <<[fn |-> <<"A", " ", "B">>, href |-> <<"a", "-", "b">> \o vcf]>>
    /\ sent = <<"REPORT", "PROPFIND">>

\* C17: with a search term, a contact is in the filtered set of
\* list_contacts_raw if and only if the term is, case-insensitively, a
\* substring of its fn, its email or its tel; a contact without one of the
\* fields is in the set when another field matches.
C17_SearchFilter ==
    (cphase = "paged" /\ Searching) =>
        LET all == Concat(pages)
            candidates == IF reportOK
                          THEN {i \in 1..Len(book) : book[i].card # NoCard}
                          ELSE VcfResources
            matches(c) == \E f \in {"fn", "email", "tel"} \cap DOMAIN c :
                              Contains(lower(c[f]), lower(term[1]))
        IN  \A i \in candidates :
                ListedRecord(i) \in Range(all) <=> matches(ListedRecord(i))

\* C17 witness: a search has kept a contact that has no fn, because its
\* email matches in another case, and has dropped another contact.
C17_Witness ==
    /\ cphase = "paged"
    /\ reportOK
    /\ term = Some(<<"B">>)
    /\ Len(book) = 2
    /\ rawTotal = 1
    /\ Concat(pages) = <<[email |-> <<"B", "a">>, href |-> <<"b">> \o vcf]>>
    /\ \E i \in 1..2 : book[i].card = [fn |-> <<"_">>]

\* C18 (as claimed): the contacts list_contacts_raw paginates are in
\* ascending order of fn compared case-insensitively, an empty or absent fn
\* first, on the REPORT path and on the PROPFIND fallback path alike.
C18_SortedCaseInsensitive ==
    cphase = "paged" =>
        LET all == Concat(pages)
        IN  \A j \in 1..(Len(all) - 1) :
                ~StrLess(lower(FnOf(all[j + 1])), lower(FnOf(all[j])))

\* s begins with p.
StartsWith(s, p) == Len(s) >= Len(p) /\ SubSeq(s, 1, Len(p)) = p

\* The base URL with exactly one "/" at its end.
NormalizedBase ==
    LET stripped == CHOOSE k \in 0..Len(urlBase.path) :
                        /\ \A i \in (k + 1)..Len(urlBase.path) : urlBase.path[i] = "/"
                        /\ (k > 0 => urlBase.path[k] # "/")
    IN  SubSeq(urlBase.path, 1, stripped) \o <<"/">>

\* The fixed prefix of a sub-API, written out.
PrefixOf(kind) ==
    CASE kind = "files" -> <<"remote.php", "/", "dav", "/", "files", "/", urlUser, "/">>
      [] kind = "calendars" -> <<"remote.php", "/", "dav", "/", "calendars", "/", urlUser, "/">>
      [] kind = "addressbooks" ->
             <<"remote.php", "/", "dav", "/", "addressbooks", "/", "users", "/", urlUser, "/">>

\* C11 (as claimed): for every base URL, username and relative path, paths
\* with leading slashes or with "." and ".." segments included, the URL of
\* a file, CalDAV or CardDAV operation begins with the normalized base URL
\* followed by the fixed prefix of its sub-API.
C11_UrlWithinPrefix ==
    urlOut # None =>
        /\ urlOut[1].url.origin = urlBase.origin
        /\ StartsWith(urlOut[1].url.path, NormalizedBase \o PrefixOf(urlOut[1].kind))

\* A response element lacks its href, its propstat or its prop.
Incomplete(e) == e.href = None \/ ~e.propstat \/ ~e.prop

\* The resourcetype of a response element has a collection child.
IsCollection(e) == e.resourcetype # None /\ "collection" \in e.resourcetype[1]

\* A str is the decimal notation of a non-negative integer.
IsNonNegativeNumber(s) ==
    /\ s # <<>>
    /\ \A i \in 1..Len(s) : s[i] \in {"0", "1", "2", "3", "4", "5", "6", "7", "8", "9"}

\* C12: each DAV listing operation answers a 2xx response whose body is
\* malformed XML, or has a response element without href, propstat or prop,
\* with an explicit error value (the error string, or (None, error) for a
\* raw variant) and does not raise.
C12_DavParseErrors ==
    (/\ davOut # None
     /\ \/ ~davBody.wellformed
        \/ \E i \in 1..Len(davBody.responses) : Incomplete(davBody.responses[i]))
        => /\ davOut[1].out.how = "ret"
           /\ davOut[1].out.error # None
           /\ davOut[1].out.items = None

\* C12 witness: list_files_raw has returned (None, error) for a well-formed
\* body whose second response element has a propstat without prop.
C12_Witness ==
    /\ davOut # None
    /\ davOut[1].op = "list_files_raw"
    /\ davBody = Multistatus(<<DavPool[1], DavPool[10]>>)
    /\ davOut[1].out = [how |-> "ret", items |-> None, error |-> Some("Error")]

\* C19 (as claimed): every record of a file listing has a size that is a
\* non-negative integer, whatever getcontentlength the server sent, and 0
\* when the server sent none.
C19_SizeNonNegative ==
    (/\ davOut # None
     /\ davOut[1].op \in {"list_files", "list_files_raw"}
     /\ davOut[1].out.error = None)
        => LET items == davOut[1].out.items[1]
           IN  \A i \in 1..Len(items) :
                   /\ IsNonNegativeNumber(items[i].size)
                   /\ davBody.responses[i].getcontentlength = None
                          => items[i].size = <<"0">>

\* C20: the is_directory of a record of a PROPFIND file listing is true if
\* and only if the resourcetype of its response element has a collection
\* child, whatever the href, displayname and getcontentlength; a listing of
\* the collection "Documents" and the file "a.txt" of length "42" gives the
\* records (is_directory true, size "0") and (is_directory false, size
\* "42"), in response order.
C20_IsDirectory ==
    (/\ davOut # None
     /\ davOut[1].op \in {"list_files", "list_files_raw"}
     /\ davOut[1].out.error = None)
        => LET items == davOut[1].out.items[1]
               raw   == davOut[1].op = "list_files_raw"
           IN  /\ Len(items) = Len(davBody.responses)
               /\ \A i \in 1..Len(items) :
                      IF raw
                      THEN items[i].is_directory = IsCollection(davBody.responses[i])
                      ELSE (items[i].type_str = "[DIR]")
                               = IsCollection(davBody.responses[i])
               /\ (raw /\ davBody = Multistatus(<<DavPool[1], DavPool[2]>>)) =>
                      items = <<[name |-> <<"Documents">>,
                                 href |-> <<"/", "f", "/", "Documents", "/">>,
                                 is_directory |-> TRUE, size |-> <<"0">>],
                                [name |-> <<"a.txt">>,
                                 href |-> <<"/", "f", "/", "a.txt">>,
                                 is_directory |-> FALSE, size |-> <<"4", "2">>]>>

\* C20 witness: list_files_raw has listed the collection "Documents" and
\* the file "a.txt".
C20_Witness ==
    /\ davOut # None
    /\ davOut[1].op = "list_files_raw"
    /\ davBody = Multistatus(<<DavPool[1], DavPool[2]>>)
    /\ davOut[1].out.error = None
    /\ Len(davOut[1].out.items[1]) = 2
    /\ davOut[1].out.items[1][1].is_directory
    /\ ~davOut[1].out.items[1][2].is_directory

\* C21: against a server that stores the posted note as it is, create_note
\* with a title, a content and a category (the empty category included),
\* followed by get_note or get_note_raw with the id the creation returned,
\* gives back that title, that content and that category.
C21_NoteRoundTrip ==
    (noteMade # None /\ noteGot # None) =>
        LET made == noteMade[1]
            got  == noteGot[1]
        IN  IF got.op = "get_note_raw"
            THEN /\ got.out.error = None
                 /\ got.out.note[1].title = made.title
                 /\ got.out.note[1].content = made.content
                 /\ got.out.note[1].category = made.category
                 /\ str_int(got.out.note[1].id) = got.id
            ELSE got.out = <<"Title: ">> \o made.title
                           \o <<"\n", "Category: ">> \o made.category
                           \o <<"\n", "Content:", "\n">> \o made.content

\* C21 witness: a note with a quote, a backslash and a newline in its
\* fields and an empty category was created as the second note of the
\* server and fetched with get_note_raw.
C21_Witness ==
    /\ noteMade # None
    /\ noteGot # None
    /\ noteGot[1].op = "get_note_raw"
    /\ noteGot[1].id = <<"1", "0">>
    /\ noteMade[1].title = <<"\"", "\\", "n">>
    /\ noteMade[1].content = <<"a", "\n", "b">>
    /\ noteMade[1].category = <<>>
    /\ noteGot[1].out.note[1].title = <<"\"", "\\", "n">>

\* C22: two tool invocations never hold the same NextcloudClient or the
\* same session. Each invocation has built its own, so whatever the
\* interleaving every request of an invocation goes to the url its own
\* _get_client read, with that client's credentials, and carries only the
\* cookies of the invocation's own earlier requests.
C22_NoSharedClient ==
    /\ \A i, j \in DOMAIN shInv :
           (i # j /\ shInv[i].client # None /\ shInv[j].client # None) =>
               /\ shInv[i].client # shInv[j].client
               /\ shClients[shInv[i].client[1]].session
                      # shClients[shInv[j].client[1]].session
    /\ \A i \in DOMAIN shInv :
           \A k \in 1..Len(shInv[i].sent) :
               /\ Some(shInv[i].sent[k].url) = shInv[i].url
               /\ Some(shInv[i].sent[k].auth) = shInv[i].url
               /\ shInv[i].sent[k].cookies = [n \in 1..(k - 1) |-> i]

\* C22 witness: two invocations that read different settings have each
\* sent two requests through their clients; the first has returned while
\* the second still holds its client.
C22_Witness ==
    /\ DOMAIN shInv # {}
    /\ shInv[1].url = Some("A")
    /\ shInv[2].url = Some("B")
    /\ Len(shInv[1].sent) = 2
    /\ Len(shInv[2].sent) = 2
    /\ shInv[1].pc = "done"
    /\ shInv[2].pc = "client"

\* C23: in the worker of a widget-enabled tool every widget mutation (the
\* data update, update_ui with its subtitle, set_error) is posted with
\* GLib.idle_add: whatever the worker has done, each widget method that
\* has run so far ran on the UI thread, and one callback has been posted
\* for each outcome the worker reached.
C23_WidgetMutationsPosted ==
    tool \in WidgetToolNames =>
        /\ \A k \in 1..Len(widgetCalls) : widgetCalls[k].thread = "ui"
        /\ pc \in {"text", "done"} => Len(widgetCalls) + Len(idleQueue) >= 1
        /\ (pc = "done" /\ outputs = <<"exception">> /\ Len(calls) = 2) =>
               Len(widgetCalls) + Len(idleQueue) = 2

\* C23 witness: the worker of the contacts widget tool has finished after
\* posting update_ui, and the UI thread has run it.
C23_Witness ==
    /\ tool = "nc_list_contacts_widget"
    /\ pc = "done"
    /\ worker = "finished"
    /\ idleQueue = <<>>
    /\ widgetCalls = <<[call |-> "update_ui", thread |-> "ui"]>>

\* The resourcetype of a response element has the marker child.
HasMarker(e, marker) == e.resourcetype # None /\ marker \in e.resourcetype[1]

\* The hrefs of the records of a listing, in order.
HrefsOf(items) == [i \in 1..Len(items) |-> items[i].href]

\* The hrefs of the response elements that have the marker, in order.
MarkedHrefs(responses, marker) ==
    HrefsOf(SelectSeq(responses, LAMBDA e : HasMarker(e, marker)))

\* C24: a response element whose resourcetype lacks the calendar marker
\* (the addressbook marker), or that has no resourcetype, is not in the
\* result of list_calendars / list_calendars_raw (list_addressbooks /
\* list_addressbooks_raw): the result holds the elements that have the
\* marker, in response order. A file listing holds one record for every
\* response element, whatever its resourcetype.
C24_MarkerFiltering ==
    (davOut # None /\ davOut[1].out.error = None) =>
        LET op    == davOut[1].op
            items == davOut[1].out.items[1]
            resps == davBody.responses
        IN  /\ op \in {"list_calendars", "list_calendars_raw"} =>
                   HrefsOf(items) = [i \in 1..Len(MarkedHrefs(resps, "calendar")) |->
                                        MarkedHrefs(resps, "calendar")[i][1]]
            /\ op \in {"list_addressbooks", "list_addressbooks_raw"} =>
                   HrefsOf(items) = [i \in 1..Len(MarkedHrefs(resps, "addressbook")) |->
                                        MarkedHrefs(resps, "addressbook")[i][1]]
            /\ op \in {"list_files", "list_files_raw"} => Len(items) = Len(resps)
            /\ op = "list_files_raw" =>
                   HrefsOf(items) = [i \in 1..Len(resps) |-> unquote(resps[i].href[1])]

\* C24 witness: list_calendars_raw has listed two calendars in response
\* order, leaving out the plain collection that stood between them.
C24_Witness ==
    /\ davOut # None
    /\ davOut[1].op = "list_calendars_raw"
    /\ davBody = Multistatus(<<DavPool[11], DavPool[1], DavPool[5]>>)
    /\ davOut[1].out.error = None
    /\ HrefsOf(davOut[1].out.items[1])
           = << <<"/", "cal", "/", "home", "/">>, <<"/", "cal", "/", "work", "/">> >>

\* C25 (as claimed): in file, calendar and address-book listings every
\* record has a name, and the record of a response element without a
\* usable displayname (none, or an empty one) is named after the last
\* path segment of its href, trailing slash stripped.
C25_NameFallsBack ==
    (/\ davOut # None
     /\ davOut[1].op \in {"list_files", "list_files_raw", "list_calendars",
                          "list_calendars_raw", "list_addressbooks",
                          "list_addressbooks_raw"}
     /\ davOut[1].out.error = None)
        => LET items == davOut[1].out.items[1]
               resps == davBody.responses
           IN  \A i \in 1..Len(items) :
                   /\ items[i].name # None
                   /\ "href" \in DOMAIN items[i] =>
                          \A k \in 1..Len(resps) :
                              (/\ unquote(resps[k].href[1]) = unquote(items[i].href)
                               /\ resps[k].displayname \in {None, Some(None)})
                                  => items[i].name
                                         = basename(rstrip(items[i].href, "/"))

\* What each physical line of LinePool is: the field of the recognized
\* property it holds with its value, a continuation, or neither.
LineKinds ==
    << [field |-> "fn",    value |-> <<"a">>],
       [field |-> "fn",    value |-> <<"b">>],
       [field |-> "email", value |-> <<"a">>],
       [field |-> "none"],
       [field |-> "none"],
       [field |-> "continuation"],
       [field |-> "continuation"],
       [field |-> "adr",   value |-> <<"a", ", ", "b">>],
       [field |-> "tel",   value |-> <<"b">>],
       [field |-> "fn",    value |-> <<"b", ":", "a">>],
       [field |-> "note",  value |-> <<"b">>],
       [field |-> "org",   value |-> <<"a">>] >>

VcardFields == {"fn", "email", "tel", "org", "note", "adr"}

\* The physical lines of the text that hold the field.
LinesWith(field) == {i \in 1..Len(vcLines) : LineKinds[vcLines[i]].field = field}

\* C26: when a recognized property (FN, EMAIL, TEL, ORG, NOTE, ADR, in any
\* case, parameters ignored) occurs several times in a VCard text, the
\* decoded record holds the value of its last occurrence; a field no line
\* holds is not in the record, so unrecognized properties and lines
\* without ":" leave the record as it is.
C26_LastOccurrenceWins ==
    (vcOut # None /\ LinesWith("continuation") = {}) =>
        /\ DOMAIN vcOut[1] \subseteq VcardFields
        /\ \A field \in VcardFields :
               IF LinesWith(field) = {} THEN field \notin DOMAIN vcOut[1]
               ELSE LET last == CHOOSE i \in LinesWith(field) :
                                    \A j \in LinesWith(field) : j <= i
                    IN  /\ field \in DOMAIN vcOut[1]
                        /\ vcOut[1][field] = LineKinds[vcLines[last]].value

\* C26 witness: the text "FN:a", "VERSION:a", "fn;TYPE=x:b" was decoded
\* and the record holds the fn of the third line.
C26_Witness ==
    /\ vcOut # None
    /\ vcLines = <<1, 4, 2>>
    /\ vcOut[1] = [fn |-> <<"b">>]

\* The logical lines of a text: each physical line that begins with a
\* space or a tab is appended, without that character, to the line before.
RECURSIVE Unfolded(_)
Unfolded(lines) ==
    IF Len(lines) <= 1 THEN lines
    ELSE LET front == Unfolded(SubSeq(lines, 1, Len(lines) - 1))
             last  == lines[Len(lines)]
         IN  IF last # <<>> /\ last[1] \in {" ", "\t"}
             THEN SubSeq(front, 1, Len(front) - 1)
                  \o <<front[Len(front)] \o Tail(last)>>
             ELSE Append(front, last)

\* C27 (as claimed): a physical line that begins with one space or tab is
\* appended without that character to the preceding line before decoding,
\* for LF and CRLF alike, so a text decodes to the record of its unfolded
\* form; and a second decoding of the text gives the same record.
C27_UnfoldsFoldedLines ==
    (/\ vcOut # None
     /\ vcLines # <<>>
     /\ LineKinds[vcLines[1]].field # "continuation")
        => LET logical == Unfolded([i \in 1..Len(vcLines) |-> LinePool[vcLines[i]]])
           IN  /\ vcOut[1] = parse_lines(EmptyDict, logical)
               /\ vcAgain # None => vcAgain = vcOut

\* The worker of a widget tool has not set / has set the textual output.
OutputPending == tool \in WidgetToolNames /\ pc \in {"fetch", "text"}

OutputSet == tool \in WidgetToolNames /\ pc = "done" /\ Len(outputs) = 1

\* C28: on every path through the worker of a widget-enabled tool
\* (configuration error, error value of the raw fetch, success, exception
\* raised by either fetch) the textual output of the result is set exactly
\* once: it is unset while the worker runs and it holds one value when the
\* worker has finished; on success the widget's data update was posted
\* before; and, every HTTP request returning or raising, a started worker
\* leads to the output being set.
C28_OutputSetOnce ==
    /\ [](tool \in WidgetToolNames =>
             /\ pc \in {"fetch", "text"} => outputs = <<>>
             /\ pc = "done" => Len(outputs) = 1
             /\ (pc = "done" /\ Len(calls) = 2 /\ outputs = <<"data">>) =>
                    Posted[1] = WidgetTools[tool].update
             /\ pc = "text" => Posted = <<WidgetTools[tool].update>>)
    /\ (OutputPending ~> OutputSet)

\* C28 witness: the worker of the files widget tool has finished on the
\* success path: both fetches returned data, set_files was posted and the
\* output was set once.
C28_Witness ==
    /\ tool = "nc_list_files_widget"
    /\ pc = "done"
    /\ Len(calls) = 2
    /\ outputs = <<"data">>
    /\ Posted = <<"set_files">>

\* C29 (as claimed): for a page number outside 1 .. total_pages, zero and
\* negative numbers included, list_contacts_raw returns an empty page of
\* contacts and a total that is the full filtered count.
C29_NoContactOutsidePages ==
    (listing # None /\ listing[1].kind \in {"text", "widget"} /\ ListingError = None) =>
        LET text     == listing[1].kind = "text"
            lim      == IF text THEN limit ELSE PageSize
            contacts == IF text THEN listing[1].text.lines ELSE listing[1].contacts
            total    == IF text THEN listing[1].text.total ELSE listing[1].total
        IN  listing[1].arg \notin 1..((total + lim - 1) \div lim) =>
                /\ contacts = <<>>
                /\ total = Cardinality(Listed)

\* C30 (as claimed): in update_deck_stack, update_deck_card,
\* update_deck_label and reorder_deck_card every argument the caller
\* supplies (is not None) is in the PUT body with its value, falsy values
\* included (order 0, archived False, an empty title or description,
\* target stack id 0).
C30_SuppliedValuesKept ==
    put # None =>
        \A k \in DOMAIN put[1].args :
            put[1].args[k] # None =>
                /\ k \in DOMAIN put[1].body
                /\ put[1].body[k] = put[1].args[k][1]

====
